---- MODULE Spec2Model ----
(***************************************************************************)
(* Calor-E: calorie estimator (utils/calorie_calculator.py), meal plan     *)
(* client (utils/meal_planner.py) and nutrition lookup client              *)
(* (utils/nutrition_api.py).                                               *)
(*                                                                         *)
(* Numbers are fixed point.  Weights and heights are counted in quarters   *)
(* (1/4 kg, 1/4 cm), a BMR in sixteenths, a product BMR x multiplier in    *)
(* 1/16000, nutrient amounts in thousandths, rounded results in            *)
(* hundredths.  Python text is a sequence of one-character strings.        *)
(* A Python value carries its type in the field t.                         *)
(***************************************************************************)
EXTENDS Integers, Sequences, FiniteSets, TLC

VARIABLES op, input, outcome, netlog, fpTieUp, env, heap, threads

vars == <<op, input, outcome, netlog, fpTieUp, env, heap, threads>>

(***************************************************************************)
(* Text                                                                    *)
(***************************************************************************)
UpperCase == <<"A","B","C","D","E","F","G","H","I","J","K","L","M",
               "N","O","P","Q","R","S","T","U","V","W","X","Y","Z">>

LowerCase == <<"a","b","c","d","e","f","g","h","i","j","k","l","m",
               "n","o","p","q","r","s","t","u","v","w","x","y","z">>

\* str.lower() on one character
LowerCharKeep(c) ==
    c

LowerTable ==
    [c \in {UpperCase[i] : i \in 1..26} |->
        LowerCase[CHOOSE i \in 1..26 : UpperCase[i] = c]]

LowerChar(c) ==
    IF c \in DOMAIN LowerTable THEN LowerTable[c] ELSE c

\* str.lower()
Lower(s) ==
    [i \in 1..Len(s) |-> LowerChar(s[i])]

S_male == <<"m","a","l","e">>
S_Male == <<"M","a","l","e">>
S_female == <<"f","e","m","a","l","e">>
S_FEMALE == <<"F","E","M","A","L","E">>
S_other == <<"o","t","h","e","r">>
S_sedentary == <<"s","e","d","e","n","t","a","r","y">>
S_Sedentary == <<"S","e","d","e","n","t","a","r","y">>
S_lightly_active == <<"l","i","g","h","t","l","y","_","a","c","t","i","v","e">>
S_moderately_active == <<"m","o","d","e","r","a","t","e","l","y","_","a","c","t","i","v","e">>
S_very_active == <<"v","e","r","y","_","a","c","t","i","v","e">>
S_VERY_ACTIVE == <<"V","E","R","Y","_","A","C","T","I","V","E">>
S_extra_active == <<"e","x","t","r","a","_","a","c","t","i","v","e">>
S_unknown == <<"u","n","k","n","o","w","n">>

(***************************************************************************)
(* Rounding.  round(x, 2) of a value x counted in 1/(100*d): the nearest   *)
(* hundredth.  When x lies exactly halfway between two hundredths the      *)
(* double that Python rounds is not x itself but its binary neighbour, so  *)
(* the result is one of the two hundredths, fixed for the run by fpTieUp.  *)
(***************************************************************************)
\* round(x, 2), and f"{x:.1f}" with d for tenths
Round2(x, d, tieUp) ==
    LET q == x \div d
        r == x % d
    IN  IF 2 * r > d THEN q + 1
        ELSE IF 2 * r < d THEN q
        ELSE IF tieUp THEN q + 1 ELSE q

(***************************************************************************)
(* Calorie estimator                                                       *)
(***************************************************************************)
Num(t, quarters) == [t |-> t, v |-> quarters]

Str(s) == [t |-> "str", s |-> s]

NoneValue == [t |-> "none", s |-> <<>>]

\* isinstance(x, (int, float))
IsNumber(x) == x.t \in {"int", "float"}

\* isinstance(x, int)
IsInt(x) == x.t = "int"

\* isinstance(x, str)
IsStr(x) == x.t = "str"

ACTIVITY_MULTIPLIERS_flat ==
    (S_sedentary :> 1200) @@ (S_lightly_active :> 1375) @@
    (S_moderately_active :> 1550) @@ (S_very_active :> 1550) @@
    (S_extra_active :> 1900)

\* multipliers in thousandths
ACTIVITY_MULTIPLIERS ==
    (S_sedentary :> 1200) @@ (S_lightly_active :> 1375) @@
    (S_moderately_active :> 1550) @@ (S_very_active :> 1725) @@
    (S_extra_active :> 1900)

MsgWeight == "Weight must be a number between 20 and 300 kg"
MsgHeight == "Height must be a number between 100 and 250 cm"
MsgAge == "Age must be an integer between 15 and 100 years"
MsgGender == "Gender must be either 'male' or 'female'"
MsgActivity == "Activity level must be one of: sedentary, lightly_active, moderately_active, very_active, extra_active"
MsgTypeNumbers == "Weight and height must be numbers"
MsgTypeAge == "Age must be an integer"
MsgTypeStrings == "Gender and activity_level must be strings"

Verdict(ok, msg) == [ok |-> ok, msg |-> msg]

validate_inputs_height_first(weight, height, age, gender, activity_level) ==
    IF ~IsNumber(height) \/ ~(400 <= height.v /\ height.v <= 1000)
    THEN Verdict(FALSE, MsgHeight)
    ELSE IF ~IsNumber(weight) \/ ~(80 <= weight.v /\ weight.v <= 1200)
    THEN Verdict(FALSE, MsgWeight)
    ELSE IF ~IsInt(age) \/ ~(60 <= age.v /\ age.v <= 400)
    THEN Verdict(FALSE, MsgAge)
    ELSE IF ~IsStr(gender) \/ Lower(gender.s) \notin {S_male, S_female}
    THEN Verdict(FALSE, MsgGender)
    ELSE IF ~IsStr(activity_level)
            \/ Lower(activity_level.s) \notin DOMAIN ACTIVITY_MULTIPLIERS
    THEN Verdict(FALSE, MsgActivity)
    ELSE Verdict(TRUE, "")

validate_inputs(weight, height, age, gender, activity_level) ==
    IF ~IsNumber(weight) \/ ~(80 <= weight.v /\ weight.v <= 1200)
    THEN Verdict(FALSE, MsgWeight)
    ELSE IF ~IsNumber(height) \/ ~(400 <= height.v /\ height.v <= 1000)
    THEN Verdict(FALSE, MsgHeight)
    ELSE IF ~IsInt(age) \/ ~(60 <= age.v /\ age.v <= 400)
    THEN Verdict(FALSE, MsgAge)
    ELSE IF ~IsStr(gender) \/ Lower(gender.s) \notin {S_male, S_female}
    THEN Verdict(FALSE, MsgGender)
    ELSE IF ~IsStr(activity_level)
            \/ Lower(activity_level.s) \notin DOMAIN ACTIVITY_MULTIPLIERS
    THEN Verdict(FALSE, MsgActivity)
    ELSE Verdict(TRUE, "")

Raised(kind, msg) == [kind |-> kind, val |-> 0, msg |-> msg]

Returned(val) == [kind |-> "value", val |-> val, msg |-> ""]

\* the result in hundredths of a kcal, or the exception raised
calculate_daily_calories(weight, height, age, gender, activity_level, tieUp) ==
    IF ~IsNumber(weight) \/ ~IsNumber(height)
    THEN Raised("TypeError", MsgTypeNumbers)
    ELSE IF ~IsInt(age)
    THEN Raised("TypeError", MsgTypeAge)
    ELSE IF ~IsStr(gender) \/ ~IsStr(activity_level)
    THEN Raised("TypeError", MsgTypeStrings)
    ELSE
    LET v == validate_inputs(weight, height, age, gender, activity_level)
    IN  IF ~v.ok
        THEN Raised("ValueError", v.msg)
        ELSE
        LET bmr == IF Lower(gender.s) = S_male
                   THEN 40 * weight.v + 25 * height.v - 20 * age.v + 80
                   ELSE 40 * weight.v + 25 * height.v - 20 * age.v - 2576
            key == Lower(activity_level.s)
            activity_multiplier ==
                   IF key \in DOMAIN ACTIVITY_MULTIPLIERS
                   THEN ACTIVITY_MULTIPLIERS[key] ELSE 1200
            daily_calories == bmr * activity_multiplier
        IN  Returned(Round2(daily_calories, 160, tieUp))

\* 19, 20, 70, 70.5, 300, 300.25 kg and a value that is not a number
Weights ==
    { Num("int", 76), Num("int", 80), Num("int", 280), Num("float", 282),
      Num("int", 1200), Num("float", 1201), Num("str", 0) }

\* 99, 100, 170, 250, 251 cm and a value that is not a number
Heights ==
    { Num("int", 396), Num("int", 400), Num("int", 680), Num("float", 1000),
      Num("int", 1004), Num("str", 0) }

\* 14, 15, 30, 100, 101 years and the floats 30.5 and 101.5
Ages ==
    { Num("int", 56), Num("int", 60), Num("int", 120), Num("int", 400),
      Num("int", 404), Num("float", 122), Num("float", 406) }

Genders ==
    { Str(S_male), Str(S_Male), Str(S_female), Str(S_FEMALE), Str(S_other),
      NoneValue }

ActivityLevels ==
    { Str(S_sedentary), Str(S_Sedentary), Str(S_lightly_active),
      Str(S_moderately_active), Str(S_VERY_ACTIVE),
      Str(S_extra_active), Str(S_unknown), NoneValue }

Metrics(w, h, a, g, l) ==
    [weight |-> w, height |-> h, age |-> a, gender |-> g, activity_level |-> l]

NoInput == [none |-> TRUE]

NoOutcome == Raised("none", "")

(***************************************************************************)
(* The environment and the two clients                                     *)
(*                                                                         *)
(* env is the process environment after load_dotenv().  heap holds the     *)
(* objects every call shares: the module-level table of the estimator and  *)
(* the client objects the constructors produced.                           *)
(***************************************************************************)
S_key == <<"k","9","f">>

\* os.getenv(name): the text, or None when the variable is not set
getenv(environ, name) ==
    environ[name]

\* not self.api_key
KeyMissingUnsetOnly(api_key) ==
    api_key = NoneValue

KeyMissing(api_key) ==
    api_key = NoneValue \/ api_key = Str(<<>>)

NoClient == [none |-> TRUE]

MsgNoSpoonacularKey ==
    "Spoonacular API key not found. Please set SPOONACULAR_API_KEY in your .env file."

MsgNoUsdaKey ==
    "USDA API key not found. Please set USDA_API_KEY in your .env file."

\* grams per unit, in hundredths
UNIT_CONVERSIONS ==
    [g |-> 100, oz |-> 2835, ml |-> 100, fl_oz |-> 2957]

\* MealPlanner(): the object, or the ValueError and no object
MealPlanner_init(environ) ==
    LET api_key == getenv(environ, "SPOONACULAR_API_KEY")
    IN  IF KeyMissing(api_key)
        THEN [self |-> NoClient, outcome |-> Raised("ValueError", MsgNoSpoonacularKey)]
        ELSE [self |-> [api_key |-> api_key], outcome |-> Returned(0)]

\* NutritionAPI(): the object, or the ValueError and no object
NutritionAPI_init(environ) ==
    LET api_key == getenv(environ, "USDA_API_KEY")
    IN  IF KeyMissing(api_key)
        THEN [self |-> NoClient, outcome |-> Raised("ValueError", MsgNoUsdaKey)]
        ELSE [self |-> [api_key |-> api_key,
                        base_url |-> "https://api.nal.usda.gov/fdc/v1",
                        UNIT_CONVERSIONS |-> UNIT_CONVERSIONS],
              outcome |-> Returned(0)]

\* app.py lines 89-101 and the widgets of the food lookup page as they are
\* first drawn; None and the empty list are the empty sequence
SessionStart ==
    [calorie_goal |-> 0, is_liquid |-> FALSE, selected_food_category |-> <<>>,
     search_results |-> <<>>, selected_food |-> <<>>,
     quantity |-> 100, unit_solid |-> "g", unit_liquid |-> "ml",
     food_selection |-> <<>>]

Environment(spoonacular, usda) ==
    [SPOONACULAR_API_KEY |-> spoonacular, USDA_API_KEY |-> usda]

NoThreads == <<>>

\* both keys are set and both clients are constructed
Init ==
    /\ op = "none"
    /\ input = NoInput
    /\ outcome = NoOutcome
    /\ netlog = <<>>
    /\ fpTieUp \in BOOLEAN
    /\ env = Environment(Str(S_key), Str(S_key))
    /\ heap = [ACTIVITY_MULTIPLIERS |-> ACTIVITY_MULTIPLIERS,
               meal_planner |-> MealPlanner_init(env).self,
               nutrition_api |-> NutritionAPI_init(env).self,
               session_state |-> SessionStart]
    /\ threads = NoThreads

\* the caller takes the result or the exception; the next call starts afresh
Return ==
    /\ op # "none"
    /\ op' = "none"
    /\ input' = NoInput
    /\ outcome' = NoOutcome
    /\ netlog' = <<>>
    /\ UNCHANGED <<fpTieUp, env, heap, threads>>

CalculateDailyCalories ==
    /\ op = "none"
    /\ \E w \in Weights, h \in Heights, a \in Ages, g \in Genders, l \in ActivityLevels :
        /\ op' = "calculate_daily_calories"
        /\ input' = Metrics(w, h, a, g, l)
        /\ outcome' = calculate_daily_calories(w, h, a, g, l, fpTieUp)
        /\ netlog' = <<>>
        /\ UNCHANGED <<fpTieUp, env, heap, threads>>

ValidateInputs ==
    /\ op = "none"
    /\ \E w \in Weights, h \in Heights, a \in Ages, g \in Genders, l \in ActivityLevels :
        /\ op' = "validate_inputs"
        /\ input' = Metrics(w, h, a, g, l)
        /\ outcome' = LET v == validate_inputs(w, h, a, g, l)
                      IN  [kind |-> "verdict", val |-> IF v.ok THEN 1 ELSE 0,
                           msg |-> v.msg]
        /\ netlog' = <<>>
        /\ UNCHANGED <<fpTieUp, env, heap, threads>>

NextCalorie ==
    \/ CalculateDailyCalories
    \/ ValidateInputs
    \/ Return

SpecCalorie == Init /\ [][NextCalorie]_vars

(***************************************************************************)
(* Calorie estimator: properties                                           *)
(***************************************************************************)
IsCalc == op = "calculate_daily_calories"

IsValidate == op = "validate_inputs"

MaleTokens == {S_male, S_Male}

FemaleTokens == {S_female, S_FEMALE}

\* the multiplier of the tier a token names, whatever its case
TierMultiplier(s) ==
    CASE s \in {S_sedentary, S_Sedentary} -> 1200
      [] s = S_lightly_active -> 1375
      [] s = S_moderately_active -> 1550
      [] s \in {S_very_active, S_VERY_ACTIVE} -> 1725
      [] s = S_extra_active -> 1900
      [] OTHER -> 0

WeightValid(m) == m.weight.t \in {"int", "float"} /\ m.weight.v \in 80..1200

HeightValid(m) == m.height.t \in {"int", "float"} /\ m.height.v \in 400..1000

AgeValid(m) == m.age.t = "int" /\ m.age.v \in 60..400

GenderValid(m) == m.gender.t = "str" /\ m.gender.s \in MaleTokens \cup FemaleTokens

ActivityValid(m) == m.activity_level.t = "str" /\ TierMultiplier(m.activity_level.s) # 0

ValidMetrics(m) ==
    WeightValid(m) /\ HeightValid(m) /\ AgeValid(m) /\ GenderValid(m) /\ ActivityValid(m)

\* 16000 x (10 w + 6.25 h - 5 a + 5 or - 161) x multiplier
ClosedForm(m) ==
    ((16 * 10 * m.weight.v + 100 * m.height.v - 16 * 5 * m.age.v
        + (IF m.gender.s \in MaleTokens THEN 64 * 5 ELSE 0 - 64 * 161)) \div 4)
    * TierMultiplier(m.activity_level.s)

Abs(x) == IF x < 0 THEN 0 - x ELSE x

\* val (hundredths) is ClosedForm rounded to 2 decimals; of two equally near
\* hundredths the run's floating-point direction decides
IsRounded(val, m) ==
    /\ 2 * Abs(160 * val - ClosedForm(m)) <= 160
    /\ 2 * Abs(160 * val - ClosedForm(m)) = 160
         => (160 * val > ClosedForm(m) <=> fpTieUp)

ExampleMetrics ==
    Metrics(Num("int", 280), Num("int", 680), Num("int", 120), Str(S_male),
            Str(S_sedentary))

EstimateMatchesFormula ==
    IsCalc /\ ValidMetrics(input)
        => outcome.kind = "value" /\ IsRounded(outcome.val, input)

\* C1 as stated: every valid input gives the closed form rounded to 2
\* decimals, the same for the same input, and male, 70 kg, 170 cm, 30 y,
\* sedentary gives 2008.20
C1_Original ==
    /\ EstimateMatchesFormula
    /\ IsCalc /\ input = ExampleMetrics => outcome = Returned(200820)

\* C1 amended: every valid input gives the closed form rounded to 2
\* decimals, the same for the same input, and male, 70 kg, 170 cm, 30 y,
\* sedentary gives 1941.00
C1_Amended ==
    /\ EstimateMatchesFormula
    /\ IsCalc /\ input = ExampleMetrics => outcome = Returned(194100)

C1_Witness ==
    IsCalc /\ input = ExampleMetrics /\ outcome.kind = "value"

Accepted ==
    \/ IsCalc /\ outcome.kind = "value"
    \/ IsValidate /\ outcome.kind = "verdict" /\ outcome.val = 1

Rejected ==
    \/ IsCalc /\ outcome.kind \in {"TypeError", "ValueError"} /\ outcome.msg # ""
    \/ IsValidate /\ outcome.kind = "verdict" /\ outcome.val = 0 /\ outcome.msg # ""

\* C2: an input is accepted exactly when weight is in [20,300], height in
\* [100,250], age an integer in [15,100], gender male or female and the
\* activity level one of the five tiers, in any letter case; every other
\* input yields an error and no calorie value
C2_AcceptIffValid ==
    IsCalc \/ IsValidate
        => /\ Accepted <=> ValidMetrics(input)
           /\ Rejected <=> ~ValidMetrics(input)

C2_Witness ==
    /\ IsCalc
    /\ input = Metrics(Num("int", 1200), Num("int", 400), Num("int", 60),
                       Str(S_FEMALE), Str(S_VERY_ACTIVE))
    /\ outcome.kind = "value"

Fields == 1..5

FieldInvalid(i, m) ==
    CASE i = 1 -> ~WeightValid(m)
      [] i = 2 -> ~HeightValid(m)
      [] i = 3 -> ~AgeValid(m)
      [] i = 4 -> ~GenderValid(m)
      [] i = 5 -> ~ActivityValid(m)

FirstInvalid(m) ==
    CHOOSE i \in Fields :
        FieldInvalid(i, m) /\ \A j \in Fields : j < i => ~FieldInvalid(j, m)

RangeMsg(i) ==
    CASE i = 1 -> MsgWeight
      [] i = 2 -> MsgHeight
      [] i = 3 -> MsgAge
      [] i = 4 -> MsgGender
      [] i = 5 -> MsgActivity

\* the messages that report field i
FieldMsgs(i) ==
    CASE i = 1 -> {MsgWeight, MsgTypeNumbers}
      [] i = 2 -> {MsgHeight, MsgTypeNumbers}
      [] i = 3 -> {MsgAge, MsgTypeAge}
      [] i = 4 -> {MsgGender, MsgTypeStrings}
      [] i = 5 -> {MsgActivity, MsgTypeStrings}

\* C3 as stated: both operations report the first invalid field in the
\* order weight, height, age, gender, activity level
C3_Original ==
    (IsCalc \/ IsValidate) /\ ~ValidMetrics(input)
        => outcome.msg \in FieldMsgs(FirstInvalid(input))

\* the type check that fails first in calculate_daily_calories, 0 if none
FirstTypeGroup(m) ==
    IF m.weight.t \notin {"int", "float"} \/ m.height.t \notin {"int", "float"}
    THEN 1
    ELSE IF m.age.t # "int" THEN 2
    ELSE IF m.gender.t # "str" \/ m.activity_level.t # "str" THEN 3
    ELSE 0

TypeMsg(g) ==
    CASE g = 1 -> MsgTypeNumbers
      [] g = 2 -> MsgTypeAge
      [] g = 3 -> MsgTypeStrings

\* C3 amended: validate_inputs reports exactly the first invalid field in
\* the order weight, height, age, gender, activity level;
\* calculate_daily_calories first reports the first ill-typed group in the
\* order (weight or height), age, (gender or activity level), and only for
\* well-typed input the first invalid field in the order above
C3_Amended ==
    /\ IsValidate /\ ~ValidMetrics(input)
         => outcome.msg = RangeMsg(FirstInvalid(input))
    /\ IsCalc /\ ~ValidMetrics(input)
         => IF FirstTypeGroup(input) # 0
            THEN outcome = Raised("TypeError", TypeMsg(FirstTypeGroup(input)))
            ELSE outcome = Raised("ValueError", RangeMsg(FirstInvalid(input)))

C3_Witness ==
    /\ IsCalc
    /\ input.weight = Num("int", 76)
    /\ input.age = Num("float", 122)
    /\ outcome = Raised("TypeError", MsgTypeAge)

(***************************************************************************)
(* Meal plan client                                                        *)
(*                                                                         *)
(* A JSON object is a function from its keys; dict.get(key, default) is    *)
(* Get.  A planner response has the documented shape: meals are objects    *)
(* and embedded nutrition values are numbers (thousandths here).  Error    *)
(* messages are sequences of words, so that wrapping a message is          *)
(* concatenation.                                                          *)
(***************************************************************************)
Get(dict, key, default) ==
    IF key \in DOMAIN dict THEN dict[key] ELSE default

Digits == <<"0","1","2","3","4","5","6","7","8","9">>

IsDigit(c) == \E i \in 1..10 : Digits[i] = c

DigitVal(c) == (CHOOSE i \in 1..10 : Digits[i] = c) - 1

RECURSIVE RemoveAll(_, _)
\* str.replace(pat, "")
RemoveAll(s, pat) ==
    IF Len(s) < Len(pat) THEN s
    ELSE IF SubSeq(s, 1, Len(pat)) = pat
    THEN RemoveAll(SubSeq(s, Len(pat) + 1, Len(s)), pat)
    ELSE <<s[1]>> \o RemoveAll(Tail(s), pat)

RECURSIVE Strip(_)
\* str.strip()
Strip(s) ==
    IF s = <<>> THEN s
    ELSE IF s[1] = " " THEN Strip(Tail(s))
    ELSE IF s[Len(s)] = " " THEN Strip(SubSeq(s, 1, Len(s) - 1))
    ELSE s

RECURSIVE DigitsValue(_)
DigitsValue(s) ==
    IF s = <<>> THEN 0
    ELSE 10 * DigitsValue(SubSeq(s, 1, Len(s) - 1)) + DigitVal(s[Len(s)])

ParseFailed == 0 - 1

\* float(s) for unsigned decimal text with at most three decimals, in
\* thousandths; ParseFailed where float() raises ValueError
ParseFloat(s) ==
    LET dots == {i \in 1..Len(s) : s[i] = "."}
        dot == IF dots = {} THEN Len(s) + 1 ELSE CHOOSE i \in dots : TRUE
        whole == SubSeq(s, 1, dot - 1)
        frac == SubSeq(s, dot + 1, Len(s))
        padded == SubSeq(frac \o <<"0","0","0">>, 1, 3)
    IN  IF /\ Cardinality(dots) <= 1
           /\ \A i \in 1..Len(s) : i # dot => IsDigit(s[i])
           /\ Len(whole) + Len(frac) >= 1
           /\ Len(frac) <= 3
        THEN 1000 * DigitsValue(whole) + DigitsValue(padded)
        ELSE ParseFailed

BASE_URL == "https://api.spoonacular.com/mealplanner/generate"

RECIPE_NUTRITION_URL == "https://api.spoonacular.com/recipes/{id}/nutritionWidget.json"

IMAGE_BASE_URL == "https://spoonacular.com/recipeImages/"

\* lines 194-198: the keys of meal_types in insertion order
MealTypeKeysDinnerFirst ==
    <<"Dinner", "Breakfast", "Lunch">>

MealTypeKeys ==
    <<"Breakfast", "Lunch", "Dinner">>

NutrientKeys == <<"calories", "protein", "fat", "carbs">>

\* the unit text that the secondary values carry
UnitSuffix ==
    [calories |-> <<"k","c","a","l">>, protein |-> <<"g">>, fat |-> <<"g">>,
     carbs |-> <<"g">>]

Zero4 == [calories |-> 0, protein |-> 0, fat |-> 0, carbs |-> 0]

\* lines 247-250: the four += of the bucket totals
Add4FatIntoProtein(a, b) ==
    [k \in DOMAIN Zero4 |-> IF k = "protein" THEN a[k] + b["fat"] ELSE a[k] + b[k]]

Add4(a, b) ==
    [k \in DOMAIN Zero4 |-> a[k] + b[k]]

\* requests.Response.raise_for_status(): HTTPError for 400..599 only
RaisesForStatus(status) ==
    400 <= status /\ status < 600

\* str(e) of the HTTPError that raise_for_status builds
HttpErrorText(status, url) ==
    <<ToString(status), IF status < 500 THEN "Client" ELSE "Server", "Error",
      "for", "url:", url>>

\* get_recipe_nutrition: the parsed body, or Failed when requests.get or
\* raise_for_status raises
FetchFailed == [failed |-> TRUE]

get_recipe_nutrition(resp) ==
    IF resp.kind = "transport" THEN FetchFailed
    ELSE IF RaisesForStatus(resp.status) THEN FetchFailed
    ELSE resp.body

\* float(nutrition_data.get(key, "0").replace(suffix, "").strip());
\* ParseFailed where an exception is raised (the value is not text, or the
\* text is not a number)
SecondaryValue(nutrition_data, key) ==
    LET raw == Get(nutrition_data, key, Str(<<"0">>))
    IN  IF raw.t # "str" THEN ParseFailed
        ELSE ParseFloat(Strip(RemoveAll(raw.s, UnitSuffix[key])))

\* not nutrition: the key is absent or the object is empty
NeedsSecondary(meal) ==
    DOMAIN Get(meal, "nutrition", <<>>) = {}

MealContributionPartial(meal, resp) ==
    IF NeedsSecondary(meal)
    THEN LET nutrition_data == get_recipe_nutrition(resp)
         IN  IF nutrition_data = FetchFailed THEN Zero4
             ELSE LET bad == {i \in 1..4 :
                               SecondaryValue(nutrition_data, NutrientKeys[i]) = ParseFailed}
                  IN  [k \in DOMAIN Zero4 |->
                         IF \E i \in 1..4 :
                               /\ NutrientKeys[i] = k
                               /\ \A j \in bad : i < j
                         THEN SecondaryValue(nutrition_data, k) ELSE 0]
    ELSE [k \in DOMAIN Zero4 |-> Get(meal.nutrition, k, 0)]

\* what one meal adds to the four sums of its bucket (lines 225-247)
MealContribution(meal, resp) ==
    IF NeedsSecondary(meal)
    THEN LET nutrition_data == get_recipe_nutrition(resp)
         IN  IF nutrition_data = FetchFailed THEN Zero4
             ELSE IF \E k \in DOMAIN Zero4 :
                        SecondaryValue(nutrition_data, k) = ParseFailed
             THEN Zero4
             ELSE [k \in DOMAIN Zero4 |-> SecondaryValue(nutrition_data, k)]
    ELSE [k \in DOMAIN Zero4 |-> Get(meal.nutrition, k, 0)]

LabelOfShifted(i) ==
    MealTypeKeys[((i + 1) % Len(MealTypeKeys)) + 1]

\* list(meal_types.keys())[i % len(meal_types)], i counted from 0
LabelOf(i) ==
    MealTypeKeys[(i % Len(MealTypeKeys)) + 1]

RECURSIVE Distribute(_, _, _)
\* lines 201-204: for i, meal in enumerate(meals)
Distribute(meals, i, meal_types) ==
    IF i >= Len(meals) THEN meal_types
    ELSE Distribute(meals, i + 1,
            [meal_types EXCEPT ![LabelOf(i)] = Append(@, meals[i + 1])])

RECURSIVE SumOver(_, _)
SumOver(seq, key) ==
    IF seq = <<>> THEN 0
    ELSE Get(seq[1], key, 0) + SumOver(Tail(seq), key)

RECURSIVE SumContributions(_, _)
\* lines 225-247: the four sums of one bucket
SumContributions(type_meals, sec) ==
    IF type_meals = <<>> THEN Zero4
    ELSE Add4(MealContribution(type_meals[1], sec[type_meals[1].id]),
              SumContributions(Tail(type_meals), sec))

\* the secondary requests of one bucket, in member order
SecondaryCallsForAll(type_meals) ==
    [i \in 1..Len(type_meals) |-> [url |-> RECIPE_NUTRITION_URL, id |-> type_meals[i].id]]

SecondaryCalls(type_meals) ==
    LET need == SelectSeq(type_meals, NeedsSecondary)
    IN  [i \in 1..Len(need) |-> [url |-> RECIPE_NUTRITION_URL, id |-> need[i].id]]

Rounded4Truncated(totals, tieUp) ==
    [k \in DOMAIN Zero4 |-> totals[k] \div 10]

\* round(total, 2) of the four sums (lines 263-266 and 275-278)
Rounded4(totals, tieUp) ==
    [k \in DOMAIN Zero4 |-> Round2(totals[k], 10, tieUp)]

\* line 259: if meal.get("sourceUrl")
HasSourceUrlKey(meal) ==
    "sourceUrl" \in DOMAIN meal

HasSourceUrl(meal) ==
    Get(meal, "sourceUrl", "") # ""

\* lines 255-269: the summary entry of one bucket
ProcessedEntryOfEmbedded(meal_type, type_meals, sec, tieUp) ==
    LET counted == SelectSeq(type_meals, LAMBDA m : ~NeedsSecondary(m))
    IN  [title |-> meal_type,
         image |-> <<IMAGE_BASE_URL,
                     IF counted = <<>> THEN "" ELSE Get(counted[1], "image", "")>>,
         readyInMinutes |-> SumOver(counted, "readyInMinutes"),
         servings |-> SumOver(counted, "servings"),
         sourceUrl |-> LET with == SelectSeq(counted, HasSourceUrl)
                       IN  [i \in 1..Len(with) |-> with[i].sourceUrl],
         nutrition |-> Rounded4(SumContributions(type_meals, sec), tieUp),
         meals |-> counted]

ProcessedEntry(meal_type, type_meals, sec, tieUp) ==
    [title |-> meal_type,
     image |-> <<IMAGE_BASE_URL, Get(type_meals[1], "image", "")>>,
     readyInMinutes |-> SumOver(type_meals, "readyInMinutes"),
     servings |-> SumOver(type_meals, "servings"),
     sourceUrl |-> LET with == SelectSeq(type_meals, HasSourceUrl)
                   IN  [i \in 1..Len(with) |-> with[i].sourceUrl],
     nutrition |-> Rounded4(SumContributions(type_meals, sec), tieUp),
     meals |-> type_meals]

RECURSIVE ProcessTypes(_, _, _, _, _)
\* lines 213-269: for meal_type, type_meals in meal_types.items()
ProcessTypes(k, meal_types, sec, tieUp, acc) ==
    IF k > Len(MealTypeKeys) THEN acc
    ELSE LET type_meals == meal_types[MealTypeKeys[k]]
         IN  IF type_meals = <<>>
             THEN ProcessTypes(k + 1, meal_types, sec, tieUp, acc)
             ELSE ProcessTypes(k + 1, meal_types, sec, tieUp,
                    [processed_meals |->
                        Append(acc.processed_meals,
                               ProcessedEntry(MealTypeKeys[k], type_meals, sec, tieUp)),
                     total_daily |->
                        Add4(acc.total_daily, SumContributions(type_meals, sec)),
                     log |-> acc.log \o SecondaryCalls(type_meals)])

\* _process_meal_plan: the plan and the secondary requests it sent
process_meal_plan(meals, sec, tieUp) ==
    LET meal_types == Distribute(meals, 0, [l \in {"Breakfast", "Lunch", "Dinner"} |-> <<>>])
        done == ProcessTypes(1, meal_types, sec, tieUp,
                             [processed_meals |-> <<>>, total_daily |-> Zero4,
                              log |-> <<>>])
    IN  [plan |-> [kind |-> "plan",
                   meals |-> done.processed_meals,
                   nutrients |-> Rounded4(done.total_daily, tieUp)],
         log |-> done.log]

MsgQuota ==
    <<"API", "quota", "exceeded.", "Please", "try", "again", "later", "or",
      "upgrade", "your", "plan.">>

MsgInvalidKey ==
    <<"Invalid", "API", "key.", "Please", "check", "your", "Spoonacular",
      "API", "key.">>

MsgRateLimit ==
    <<"API", "rate", "limit", "exceeded.", "Please", "wait", "a", "few",
      "minutes", "before", "trying", "again.">>

MsgRequestFailed(status, text) ==
    <<"API", "request", "failed", "with", "status", "code",
      ToString(status) \o ":">> \o text

MsgEmptyPlan ==
    <<"Could", "not", "generate", "a", "meal", "plan", "with", "the",
      "given", "constraints">>

PrefixRequest == <<"Error", "making", "API", "request:">>

PrefixGenerating == <<"Error", "generating", "meal", "plan:">>

TextConnection == <<"Connection", "aborted.">>

TextNotJson == <<"Expecting", "value:", "line", "1", "column", "1", "(char", "0)">>

PlanError(words) == [kind |-> "ValueError", val |-> 0, msg |-> words]

NoMealsMissingOnly(data) ==
    "meals" \notin DOMAIN data

\* line 154: not data.get("meals")
NoMeals(data) ==
    Get(data, "meals", <<>>) = <<>>

\* lines 132-145: the query parameters
RequestParams(self, target_calories, diet, exclude, time_frame) ==
    LET base == [apiKey |-> self.api_key, timeFrame |-> time_frame,
                 targetCalories |-> target_calories, number |-> 3,
                 addRecipeInformation |-> TRUE]
        withDiet == IF diet # "" THEN [diet |-> diet] @@ base ELSE base
    IN  IF exclude # "" THEN [exclude |-> exclude] @@ withDiet ELSE withDiet

\* line 149: requests.get(self.BASE_URL, params=params), once
PlannerRequestsRetried(params) ==
    <<[url |-> BASE_URL, params |-> params], [url |-> BASE_URL, params |-> params]>>

PlannerRequests(params) ==
    <<[url |-> BASE_URL, params |-> params]>>

\* generate_meal_plan: the plan returned or the ValueError raised, and the
\* requests sent.  resp is the planner's answer, sec the answers of the
\* nutrition endpoint by recipe id; jsonErrorIsRequestException tells whether
\* the installed requests library derives its JSONDecodeError from
\* RequestException (2.27 and later) or only from ValueError.
generate_meal_plan(self, target_calories, diet, exclude, time_frame, resp, sec, tieUp, jsonErrorIsRequestException) ==
    LET first == PlannerRequests(RequestParams(self, target_calories, diet,
                                               exclude, time_frame))
    IN  IF resp.kind = "transport"
        THEN [outcome |-> PlanError(PrefixRequest \o TextConnection), log |-> first]
        ELSE IF RaisesForStatus(resp.status)
        THEN [outcome |->
                IF resp.status = 402 THEN PlanError(MsgQuota)
                ELSE IF resp.status = 401 THEN PlanError(MsgInvalidKey)
                ELSE IF resp.status = 429 THEN PlanError(MsgRateLimit)
                ELSE PlanError(MsgRequestFailed(resp.status,
                                   HttpErrorText(resp.status, BASE_URL))),
              log |-> first]
        ELSE IF ~resp.json
        THEN [outcome |->
                IF jsonErrorIsRequestException
                THEN PlanError(PrefixRequest \o TextNotJson)
                ELSE PlanError(PrefixGenerating \o TextNotJson),
              log |-> first]
        ELSE IF NoMeals(resp.data)
        THEN [outcome |-> PlanError(PrefixGenerating \o MsgEmptyPlan), log |-> first]
        ELSE LET done == process_meal_plan(resp.data.meals, sec, tieUp)
             IN  [outcome |-> done.plan, log |-> first \o done.log]

(***************************************************************************)
(* The answers the two endpoints can give                                  *)
(***************************************************************************)
MaxMeals == 6

MaxRichMeals == 3

Text(s) == [t |-> "str", s |-> s]

NotCalled == [kind |-> "none"]

SecOk(body) == [kind |-> "http", status |-> 200, body |-> body]

SecStatus(status) == [kind |-> "http", status |-> status, body |-> <<>>]

SecTransport == [kind |-> "transport"]

NutA == [calories |-> 500004, protein |-> 30004, fat |-> 20004, carbs |-> 50004]

NutB == [calories |-> 300000, protein |-> 10500]

MealA ==
    [image |-> "a.jpg", readyInMinutes |-> 20, servings |-> 2,
     sourceUrl |-> "http://a", nutrition |-> NutA]

MealB ==
    [readyInMinutes |-> 45, sourceUrl |-> "", nutrition |-> NutB]

\* no embedded nutrition
MealC ==
    [image |-> "c.jpg", readyInMinutes |-> 30, servings |-> 4,
     sourceUrl |-> "http://c"]

\* an empty embedded nutrition object
MealD ==
    [image |-> "d.jpg", servings |-> 1, nutrition |-> <<>>]

\* {"calories": "316", "protein": "3g", "fat": "12g", "carbs": "49g"}
WidgetPlain ==
    [calories |-> Text(<<"3","1","6">>), protein |-> Text(<<"3","g">>),
     fat |-> Text(<<"1","2","g">>), carbs |-> Text(<<"4","9","g">>)]

\* {"calories": "250.004 kcal", "protein": " 10.5 g"}
WidgetSpaced ==
    [calories |-> Text(<<"2","5","0",".","0","0","4"," ","k","c","a","l">>),
     protein |-> Text(<<" ","1","0",".","5"," ","g">>)]

\* {..., "carbs": "49mg"}
WidgetBadCarbs ==
    [calories |-> Text(<<"3","1","6">>), protein |-> Text(<<"3","g">>),
     fat |-> Text(<<"1","2","g">>), carbs |-> Text(<<"4","9","m","g">>)]

\* {"calories": "n/a", ...}
WidgetBadCalories ==
    [calories |-> Text(<<"n","/","a">>), protein |-> Text(<<"3","g">>),
     fat |-> Text(<<"1","2","g">>), carbs |-> Text(<<"4","9","g">>)]

\* {"calories": 316, ...}: a number where text is expected
WidgetNumber ==
    [calories |-> Num("int", 316), protein |-> Text(<<"3","g">>),
     fat |-> Text(<<"1","2","g">>), carbs |-> Text(<<"4","9","g">>)]

Scenario(meal, sec) == [meal |-> meal, sec |-> sec]

BasicScenarios ==
    { Scenario(MealA, NotCalled),
      Scenario(MealC, SecOk(WidgetPlain)),
      Scenario(MealC, SecStatus(404)) }

RichScenarios ==
    BasicScenarios \cup
    { Scenario(MealB, NotCalled),
      Scenario(MealD, SecOk(WidgetSpaced)),
      Scenario(MealC, SecOk(WidgetBadCarbs)),
      Scenario(MealD, SecOk(WidgetBadCalories)),
      Scenario(MealC, SecOk(WidgetNumber)),
      Scenario(MealD, SecTransport) }

SeqsUpTo(S, n) == UNION {[1..k -> S] : k \in 0..n}

ScenarioLists ==
    SeqsUpTo(BasicScenarios, MaxMeals) \cup SeqsUpTo(RichScenarios, MaxRichMeals)

\* the meals of a response, with recipe ids 0, 1, ... in list order
MealsOf(scen) == [i \in 1..Len(scen) |-> [id |-> i - 1] @@ scen[i].meal]

SecOf(scen) == [id \in 0..(Len(scen) - 1) |-> scen[id + 1].sec]

ErrorStatuses == {400, 401, 402, 403, 404, 429, 500, 503}

PassingStatuses == {200, 201, 304}

Transport == [kind |-> "transport"]

HttpNotJson(status) ==
    [kind |-> "http", status |-> status, json |-> FALSE, data |-> <<>>]

HttpJson(status, data) ==
    [kind |-> "http", status |-> status, json |-> TRUE, data |-> data]

Diets == {"", "vegan"}

Exclusions == {"", "dairy,egg"}

\* the answers of the planner, each with the meals behind it
PlannerCalls ==
    {[resp |-> Transport, scen |-> <<>>]}
    \cup {[resp |-> HttpNotJson(st), scen |-> <<>>] :
             st \in ErrorStatuses \cup PassingStatuses}
    \cup {[resp |-> HttpJson(st, <<>>), scen |-> <<>>] :
             st \in PassingStatuses}
    \cup {[resp |-> HttpJson(200, [meals |-> MealsOf(scen)]), scen |-> scen] :
             scen \in ScenarioLists}
    \cup {[resp |-> HttpJson(st, [meals |-> MealsOf(scen)]), scen |-> scen] :
             st \in PassingStatuses \ {200},
             scen \in SeqsUpTo(BasicScenarios, 1)}

\* a few of them
FewPlannerCalls ==
    {[resp |-> Transport, scen |-> <<>>],
     [resp |-> HttpNotJson(401), scen |-> <<>>],
     [resp |-> HttpJson(200, <<>>), scen |-> <<>>]}
    \cup {[resp |-> HttpJson(200, [meals |-> MealsOf(scen)]), scen |-> scen] :
             scen \in SeqsUpTo(BasicScenarios, 1) \ {<<>>}}

\* one call of generate_meal_plan answered by call.resp
CallGenerateMealPlan(call) ==
    /\ \E diet \in Diets, exclude \in Exclusions :
          \E newer \in IF call.resp.kind = "http" /\ ~call.resp.json
                        THEN BOOLEAN ELSE {TRUE} :
            LET done == generate_meal_plan(heap.meal_planner, 2000, diet, exclude, "day",
                                           call.resp, SecOf(call.scen), fpTieUp, newer)
            IN  /\ op' = "generate_meal_plan"
                /\ input' = [resp |-> call.resp, sec |-> SecOf(call.scen)]
                /\ outcome' = done.outcome
                /\ netlog' = done.log
                /\ UNCHANGED <<fpTieUp, env, heap, threads>>

GenerateMealPlan ==
    /\ op = "none"
    /\ heap.meal_planner # NoClient
    /\ \E call \in PlannerCalls : CallGenerateMealPlan(call)

NextPlanner ==
    \/ GenerateMealPlan
    \/ Return

SpecPlanner == Init /\ [][NextPlanner]_vars

(***************************************************************************)
(* Meal plan client: properties                                            *)
(***************************************************************************)
IsGenerate == op = "generate_meal_plan"

PlanReturned == IsGenerate /\ outcome.kind = "plan"

IsPrefix(p, s) == Len(p) <= Len(s) /\ SubSeq(s, 1, Len(p)) = p

IsSuffix(p, s) == Len(p) <= Len(s) /\ SubSeq(s, Len(s) - Len(p) + 1, Len(s)) = p

QuotaExceeded ==
    outcome.kind = "ValueError" /\ IsPrefix(<<"API", "quota", "exceeded.">>, outcome.msg)

InvalidCredentials ==
    outcome.kind = "ValueError" /\ IsPrefix(<<"Invalid", "API", "key.">>, outcome.msg)

RateLimited ==
    outcome.kind = "ValueError"
    /\ IsPrefix(<<"API", "rate", "limit", "exceeded.">>, outcome.msg)

RequestFailedWith(status) ==
    outcome.kind = "ValueError"
    /\ IsPrefix(<<"API", "request", "failed", "with", "status", "code",
                  ToString(status) \o ":">>, outcome.msg)

EmptyPlan ==
    outcome.kind = "ValueError"
    /\ IsSuffix(<<"Could", "not", "generate", "a", "meal", "plan", "with",
                  "the", "given", "constraints">>, outcome.msg)

Non2xx(resp) == resp.kind = "http" /\ ~(resp.status \in 200..299)

\* C4: a planner response with status 402, 401 or 429 gives the quota,
\* credentials or rate-limit error, every other non-2xx status the generic
\* request-failed error carrying that status, and nothing else
C4_StatusClassification ==
    IsGenerate /\ Non2xx(input.resp)
        => LET st == input.resp.status
           IN  /\ QuotaExceeded <=> st = 402
               /\ InvalidCredentials <=> st = 401
               /\ RateLimited <=> st = 429
               /\ RequestFailedWith(st) <=> st \notin {402, 401, 429}

ReturnedMeals == input.resp.data.meals

\* the members of the bucket with label l in the returned plan
BucketMembers(l) ==
    IF \E e \in 1..Len(outcome.meals) : outcome.meals[e].title = l
    THEN outcome.meals[CHOOSE e \in 1..Len(outcome.meals) :
                           outcome.meals[e].title = l].meals
    ELSE <<>>

IdsOf(members) == [j \in 1..Len(members) |-> members[j].id]

\* the list indices congruent to k modulo 3, ascending
IndicesOf(k, n) ==
    LET count == Cardinality({i \in 0..(n - 1) : i % 3 = k})
    IN  [j \in 1..count |-> 3 * (j - 1) + k]

\* C5: the meal at list index i is in the bucket [Breakfast, Lunch,
\* Dinner][i mod 3], in list order, every meal in exactly one bucket; 3
\* meals give one per bucket, 6 meals give {0,3}, {1,4}, {2,5}
C5_RoundRobin ==
    PlanReturned
        => LET n == Len(ReturnedMeals)
               labels == <<"Breakfast", "Lunch", "Dinner">>
           IN  /\ \A k \in 0..2 :
                     /\ IdsOf(BucketMembers(labels[k + 1])) = IndicesOf(k, n)
                     /\ \A j \in 1..Len(BucketMembers(labels[k + 1])) :
                           BucketMembers(labels[k + 1])[j]
                               = ReturnedMeals[3 * (j - 1) + k + 1]
               /\ \A i \in 0..(n - 1) :
                     Cardinality({<<k, j>> \in (1..3) \X (1..n) :
                                     /\ j <= Len(BucketMembers(labels[k]))
                                     /\ BucketMembers(labels[k])[j].id = i}) = 1
               /\ n = 3 => \A k \in 1..3 : Len(BucketMembers(labels[k])) = 1
               /\ n = 6 => /\ IdsOf(BucketMembers("Breakfast")) = <<0, 3>>
                           /\ IdsOf(BucketMembers("Lunch")) = <<1, 4>>
                           /\ IdsOf(BucketMembers("Dinner")) = <<2, 5>>

C5_Witness ==
    PlanReturned /\ Len(ReturnedMeals) = 6 /\ Len(outcome.meals) = 3

Nutrients == {"calories", "protein", "fat", "carbs"}

NoEmbeddedNutrition(meal) ==
    "nutrition" \notin DOMAIN meal \/ meal.nutrition = <<>>

\* the secondary answers that cannot be used: the call failed, or one of
\* the four values is not a number
SecondaryUnusable(resp) ==
    \/ resp.kind = "transport"
    \/ resp.kind = "http" /\ resp.status \notin 200..299
    \/ resp.kind = "http" /\ resp.body \in {WidgetBadCarbs, WidgetBadCalories, WidgetNumber}

Skipped(meal) ==
    NoEmbeddedNutrition(meal) /\ SecondaryUnusable(input.sec[meal.id])

\* what a meal is worth, in thousandths: its embedded figures, or the figures
\* of a usable secondary answer
Worth(meal, k) ==
    IF ~NoEmbeddedNutrition(meal)
    THEN (IF k \in DOMAIN meal.nutrition THEN meal.nutrition[k] ELSE 0)
    ELSE IF Skipped(meal) THEN 0
    ELSE IF input.sec[meal.id].body = WidgetPlain
    THEN [calories |-> 316000, protein |-> 3000, fat |-> 12000, carbs |-> 49000][k]
    ELSE IF input.sec[meal.id].body = WidgetSpaced
    THEN [calories |-> 250004, protein |-> 10500, fat |-> 0, carbs |-> 0][k]
    ELSE 0 - 1

RECURSIVE WorthOf(_, _)
WorthOf(members, k) ==
    IF members = <<>> THEN 0
    ELSE Worth(members[1], k) + WorthOf(Tail(members), k)

\* hundredths h is thousandths x rounded to 2 decimals
Nearest(h, x) == 2 * Abs(10 * h - x) <= 10

RECURSIVE ReportedSum(_, _)
ReportedSum(entries, k) ==
    IF entries = <<>> THEN 0
    ELSE entries[1].nutrition[k] + ReportedSum(Tail(entries), k)

\* C6 as stated: each reported day-level total is the sum of the reported
\* bucket totals
C6_Original ==
    PlanReturned
        => \A k \in Nutrients :
              outcome.nutrients[k] = ReportedSum(outcome.meals, k)

\* C6 amended: each reported day-level total is the sum of the bucket sums
\* before rounding, rounded to 2 decimals, and so within 0.02 of the sum of
\* the reported bucket totals
C6_Amended ==
    PlanReturned
        => \A k \in Nutrients :
              /\ Nearest(outcome.nutrients[k], WorthOf(ReturnedMeals, k))
              /\ Abs(outcome.nutrients[k] - ReportedSum(outcome.meals, k)) <= 2

C6_Witness ==
    /\ PlanReturned
    /\ Len(outcome.meals) = 3
    /\ outcome.nutrients["calories"] # ReportedSum(outcome.meals, "calories")

\* C9: when a meal without embedded nutrition gets no usable secondary
\* answer, a plan is still returned, that meal adds nothing to the four sums
\* of its bucket, and every other member adds what it is worth
C9_SilentSkip ==
    /\ IsGenerate /\ input.resp.kind = "http" /\ input.resp.status = 200
       /\ input.resp.json /\ "meals" \in DOMAIN input.resp.data
       /\ (\E i \in 1..Len(ReturnedMeals) : Skipped(ReturnedMeals[i]))
         => PlanReturned
    /\ PlanReturned
         => \A e \in 1..Len(outcome.meals) : \A k \in Nutrients :
               Nearest(outcome.meals[e].nutrition[k],
                       WorthOf(SelectSeq(outcome.meals[e].meals,
                                         LAMBDA m : ~Skipped(m)), k))

C9_Witness ==
    /\ PlanReturned
    /\ Len(ReturnedMeals) >= 4
    /\ Skipped(ReturnedMeals[1])
    /\ ~Skipped(ReturnedMeals[4])
    /\ ~Skipped(ReturnedMeals[2])
    /\ outcome.meals[1].nutrition["calories"] > 0

\* C10: a 2xx response whose meals list is empty or missing gives the
\* empty-plan error and nothing else: no plan, no request besides the
\* planner request, and not one of the four HTTP-status errors
C10_EmptyPlan ==
    IsGenerate /\ input.resp.kind = "http" /\ input.resp.status \in 200..299
    /\ input.resp.json
    /\ ("meals" \notin DOMAIN input.resp.data \/ input.resp.data.meals = <<>>)
        => /\ EmptyPlan
           /\ ~PlanReturned
           /\ Len(netlog) = 1 /\ netlog[1].url = BASE_URL
           /\ ~QuotaExceeded /\ ~InvalidCredentials /\ ~RateLimited
           /\ \A st \in 100..599 : ~RequestFailedWith(st)

C10_Witness ==
    /\ IsGenerate /\ input.resp.kind = "http" /\ input.resp.status = 200
    /\ input.resp.json /\ "meals" \in DOMAIN input.resp.data
    /\ input.resp.data.meals = <<>>
    /\ EmptyPlan

(***************************************************************************)
(* Nutrition lookup client                                                 *)
(*                                                                         *)
(* Reported amounts are counted in tenths, quantities in hundredths of a   *)
(* gram, a scaled amount (amount * amount_g) / 100 in 1/100000, a          *)
(* displayed figure in tenths.                                             *)
(***************************************************************************)
NUTRIENT_IDS ==
    [energy |-> 1008, protein |-> 1003, fat |-> 1004, carbs |-> 1005,
     fiber |-> 1079, sugar |-> 2000, sodium |-> 1093, calcium |-> 1087,
     iron |-> 1089, vitamin_a |-> 1106, vitamin_c |-> 1162,
     vitamin_d |-> 1114, vitamin_e |-> 1158, vitamin_k |-> 1185,
     vitamin_b6 |-> 1175, vitamin_b12 |-> 1178, folate |-> 1177,
     magnesium |-> 1090, zinc |-> 1095, potassium |-> 1092, water |-> 1051,
     alcohol |-> 1018, caffeine |-> 1057, cholesterol |-> 1253,
     saturated_fat |-> 1258, monounsaturated_fat |-> 1292,
     polyunsaturated_fat |-> 1293, trans_fat |-> 1257]

RecognizedIds == {NUTRIENT_IDS[k] : k \in DOMAIN NUTRIENT_IDS}

main_nutrients ==
    <<"Energy", "Protein", "Total lipid (fat)", "Carbohydrate, by difference",
      "Fiber, total dietary", "Sugars, Total", "Water">>

pie_nutrients ==
    <<"Protein", "Total lipid (fat)", "Carbohydrate, by difference">>

\* convert_to_grams: hundredths of a gram, or the ValueError
convert_to_grams_default(self, amount, unit) ==
    [kind |-> "value",
     val |-> amount * Get(self.UNIT_CONVERSIONS, unit, 100),
     msg |-> <<>>]

convert_to_grams(self, amount, unit) ==
    IF unit \notin DOMAIN self.UNIT_CONVERSIONS
    THEN [kind |-> "ValueError", val |-> 0,
          msg |-> <<"Unsupported unit:", unit, "Supported units are:",
                    "g, oz, ml, fl_oz">>]
    ELSE [kind |-> "value", val |-> amount * self.UNIT_CONVERSIONS[unit], msg |-> <<>>]

NoId == 0 - 1

\* nutrition_data[name] = {...}: a new key goes last, a known key keeps its
\* place
Store(nutrition_data, name, entry) ==
    IF \E i \in 1..Len(nutrition_data) : nutrition_data[i].name = name
    THEN [i \in 1..Len(nutrition_data) |->
            IF nutrition_data[i].name = name THEN entry ELSE nutrition_data[i]]
    ELSE Append(nutrition_data, entry)

TypeName(x) ==
    CASE x.t = "int" -> "'int'"
      [] x.t = "float" -> "'float'"
      [] x.t = "none" -> "'NoneType'"
      [] x.t = "str" -> "'str'"

RECURSIVE ExtractNutrients(_, _, _)
\* lines 188-202 of get_nutrition_data: the loop over foodNutrients from
\* entry i on; an exception ends it
ExtractNutrients(foodNutrients, amount_g, nutrition_data) ==
    IF foodNutrients = <<>>
    THEN [success |-> TRUE, data |-> nutrition_data, msg |-> ""]
    ELSE
    LET nutrient == foodNutrients[1]
    IN  IF nutrient.t # "dict"
        THEN [success |-> FALSE, data |-> <<>>,
              msg |-> TypeName(nutrient) \o " object has no attribute 'get'"]
        ELSE
        LET inner == Get(nutrient.d, "nutrient", <<>>)
            nutrient_id == Get(inner, "id", NoId)
        IN  IF nutrient_id \notin RecognizedIds
            THEN ExtractNutrients(Tail(foodNutrients), amount_g, nutrition_data)
            ELSE
            LET name == Get(inner, "name", "None")
                amount == Get(nutrient.d, "amount", Num("int", 0))
            IN  IF ~IsNumber(amount)
                THEN [success |-> FALSE, data |-> <<>>,
                      msg |-> "unsupported operand type(s) for *: "
                              \o TypeName(amount) \o " and " \o TypeName(amount_g)]
                ELSE ExtractNutrients(Tail(foodNutrients), amount_g,
                        Store(nutrition_data, name,
                              [name |-> name,
                               amount |-> amount.v * amount_g.v,
                               unit |-> Get(inner, "unitName", "g")]))

\* get_nutrition_data: (success, data or message)
get_nutrition_data(food_data, amount_g) ==
    IF food_data.t # "dict"
    THEN [success |-> FALSE, data |-> <<>>,
          msg |-> TypeName(food_data) \o " object has no attribute 'get'"]
    ELSE ExtractNutrients(Get(food_data.d, "foodNutrients", <<>>), amount_g, <<>>)

Named(nutrition_data, name) ==
    SelectSeq(nutrition_data, LAMBDA e : e.name = name)

RECURSIVE InOrder(_, _)
\* the entries of nutrition_data that carry one of the names, in the order
\* of the names
InOrder(names, nutrition_data) ==
    IF names = <<>> THEN <<>>
    ELSE Named(nutrition_data, names[1]) \o InOrder(Tail(names), nutrition_data)

\* line 250: nutrient not in main_nutrients is the negation of this
IsMainNever(name) ==
    FALSE

IsMain(name) ==
    \E i \in 1..Len(main_nutrients) : main_nutrients[i] = name

\* one table row: the name, f"{amount:.1f} {unit}" and
\* f"{amount * 100 / amount_g:.1f} {unit}"
RowNotRescaled(e, amount_g, tieUp) ==
    [Nutrient |-> e.name,
     Amount |-> <<Round2(e.amount, 10000, tieUp), e.unit>>,
     AmountPer100g |-> <<Round2(e.amount, 10000, tieUp), e.unit>>]

Row(e, amount_g, tieUp) ==
    [Nutrient |-> e.name,
     Amount |-> <<Round2(e.amount, 10000, tieUp), e.unit>>,
     AmountPer100g |-> <<Round2(e.amount, amount_g.v, tieUp), e.unit>>]

\* create_nutrient_tables: the three tables, or the exception raised
create_nutrient_tables(food_data, amount_g, tieUp) ==
    LET got == get_nutrition_data(food_data, amount_g)
    IN  IF ~got.success
        THEN [kind |-> "ValueError", msg |-> got.msg]
        ELSE
        LET main == InOrder(main_nutrients, got.data)
            additional == SelectSeq(got.data, LAMBDA e : ~IsMain(e.name))
            pie == InOrder(pie_nutrients, got.data)
        IN  IF amount_g.v = 0 /\ Len(main) + Len(additional) + Len(pie) > 0
            THEN [kind |-> "ZeroDivisionError",
                  msg |-> "float division by zero"]
            ELSE [kind |-> "tables", msg |-> "",
                  main |-> [i \in 1..Len(main) |-> Row(main[i], amount_g, tieUp)],
                  additional |->
                      [i \in 1..Len(additional) |-> Row(additional[i], amount_g, tieUp)],
                  pie |-> [i \in 1..Len(pie) |->
                              [Nutrient |-> pie[i].name,
                               AmountPer100g |-> pie[i].amount \div amount_g.v]]]

MaxNutrients == 3

Dict(d) == [t |-> "dict", d |-> d]

NutrientEntry(id, name, unitName, amount) ==
    Dict([nutrient |-> [id |-> id, name |-> name, unitName |-> unitName],
          amount |-> amount])

NutrientEntries ==
    { NutrientEntry(1003, "Protein", "g", Num("float", 105)),
      NutrientEntry(1008, "Energy", "kcal", Num("int", 520)),
      NutrientEntry(1089, "Iron, Fe", "mg", Num("float", 12)),
      NutrientEntry(1062, "Energy", "kJ", Num("int", 2180)),
      NutrientEntry(2000, "Sugars, total including NLEA", "g", Num("float", 104)),
      NutrientEntry(1004, "Total lipid (fat)", "g", NoneValue),
      Dict([nutrient |-> [id |-> 1005, name |-> "Carbohydrate, by difference"]]),
      Dict([amount |-> Num("int", 50)]),
      [t |-> "str", d |-> <<>>] }

FoodRecords ==
    {Dict([foodNutrients |-> l]) : l \in SeqsUpTo(NutrientEntries, MaxNutrients)}
    \cup {Dict([description |-> "Apple"]), [t |-> "none", d |-> <<>>]}

\* 0, 0.0, 28.35, 100 and 250 g
Quantities ==
    { Num("int", 0), Num("float", 0), Num("float", 2835), Num("int", 10000),
      Num("float", 25000) }

UnitTokens == {"g", "oz", "ml", "fl_oz", "lb"}

Amounts == {1, 5, 100, 1000}

\* lines 115-120 and 144-149: one requests.get, raise_for_status,
\* response.json(); a RequestException is raised again as a plain Exception
\* with the prefix before its text, anything else passes through
fetch_json(url, params, prefix, resp, jsonErrorIsRequestException) ==
    LET sent == <<[url |-> url, params |-> params]>>
        failure(text) == [kind |-> "Exception", val |-> <<>>, msg |-> prefix \o text]
    IN  IF resp.kind = "transport"
        THEN [outcome |-> failure(TextConnection), log |-> sent]
        ELSE IF RaisesForStatus(resp.status)
        THEN [outcome |-> failure(HttpErrorText(resp.status, url)), log |-> sent]
        ELSE IF ~resp.json
        THEN [outcome |->
                IF jsonErrorIsRequestException
                THEN failure(TextNotJson)
                ELSE [kind |-> "JSONDecodeError", val |-> <<>>, msg |-> TextNotJson],
              log |-> sent]
        ELSE [outcome |-> [kind |-> "result", val |-> resp.data, msg |-> <<>>],
              log |-> sent]

search_foods(self, query, page_size, resp, jsonErrorIsRequestException) ==
    fetch_json(<<self.base_url, "/foods/search">>,
               [api_key |-> self.api_key, query |-> query, pageSize |-> page_size,
                dataType |-> <<"Foundation", "SR Legacy", "Survey (FNDDS)">>],
               <<"Error", "searching", "foods:">>, resp,
               jsonErrorIsRequestException)

get_food_details(self, fdc_id, resp, jsonErrorIsRequestException) ==
    fetch_json(<<self.base_url, "/food/", fdc_id>>, [api_key |-> self.api_key],
               <<"Error", "getting", "food", "details:">>, resp,
               jsonErrorIsRequestException)

Queries == {"apple", "rice"}

FdcIds == {171688, 2344720}

SearchResults ==
    { [foods |-> <<>>],
      [foods |-> <<[fdcId |-> 171688, description |-> "Apple"]>>] }

DetailRecords ==
    { [description |-> "Apple"],
      [description |-> "Apple",
       foodNutrients |-> <<NutrientEntry(1003, "Protein", "g", Num("float", 105))>>] }

\* what the lookup service can answer
LookupResponses(bodies) ==
    {Transport}
    \cup {HttpNotJson(st) : st \in ErrorStatuses \cup PassingStatuses}
    \cup {HttpJson(st, b) : st \in PassingStatuses, b \in bodies}

ConvertToGrams ==
    /\ op = "none"
    /\ heap.nutrition_api # NoClient
    /\ \E amount \in Amounts, unit \in UnitTokens :
        /\ op' = "convert_to_grams"
        /\ input' = [amount |-> amount, unit |-> unit]
        /\ outcome' = convert_to_grams(heap.nutrition_api, amount, unit)
        /\ netlog' = <<>>
        /\ UNCHANGED <<fpTieUp, env, heap, threads>>

CreateNutrientTables ==
    /\ op = "none"
    /\ heap.nutrition_api # NoClient
    /\ \E food_data \in FoodRecords, amount_g \in Quantities :
        /\ op' = "create_nutrient_tables"
        /\ input' = [food_data |-> food_data, amount_g |-> amount_g]
        /\ outcome' = create_nutrient_tables(food_data, amount_g, fpTieUp)
        /\ netlog' = <<>>
        /\ UNCHANGED <<fpTieUp, env, heap, threads>>

SearchFoods ==
    /\ op = "none"
    /\ heap.nutrition_api # NoClient
    /\ \E query \in Queries, resp \in LookupResponses(SearchResults) :
        \E newer \in IF resp.kind = "http" /\ ~resp.json THEN BOOLEAN ELSE {TRUE} :
          LET done == search_foods(heap.nutrition_api, query, 10, resp, newer)
          IN  /\ op' = "search_foods"
              /\ input' = [query |-> query, resp |-> resp]
              /\ outcome' = done.outcome
              /\ netlog' = done.log
              /\ UNCHANGED <<fpTieUp, env, heap, threads>>

GetFoodDetails ==
    /\ op = "none"
    /\ heap.nutrition_api # NoClient
    /\ \E fdc_id \in FdcIds, resp \in LookupResponses(DetailRecords) :
        \E newer \in IF resp.kind = "http" /\ ~resp.json THEN BOOLEAN ELSE {TRUE} :
          LET done == get_food_details(heap.nutrition_api, fdc_id, resp, newer)
          IN  /\ op' = "get_food_details"
              /\ input' = [fdc_id |-> fdc_id, resp |-> resp]
              /\ outcome' = done.outcome
              /\ netlog' = done.log
              /\ UNCHANGED <<fpTieUp, env, heap, threads>>

NextNutrition ==
    \/ ConvertToGrams
    \/ CreateNutrientTables
    \/ SearchFoods
    \/ GetFoodDetails
    \/ Return

SpecNutrition == Init /\ [][NextNutrition]_vars

(***************************************************************************)
(* Construction of the clients                                             *)
(***************************************************************************)
\* unset, empty, set
KeySettings == {NoneValue, Str(<<>>), Str(S_key)}

\* meal_planner = MealPlanner()
ConstructMealPlanner ==
    /\ op = "none"
    /\ LET made == MealPlanner_init(env)
       IN  /\ op' = "MealPlanner"
           /\ input' = NoInput
           /\ outcome' = made.outcome
           /\ netlog' = <<>>
           /\ heap' = IF made.self = NoClient THEN heap
                      ELSE [heap EXCEPT !.meal_planner = made.self]
           /\ UNCHANGED <<fpTieUp, env, threads>>

\* nutrition_api = NutritionAPI()
ConstructNutritionAPI ==
    /\ op = "none"
    /\ LET made == NutritionAPI_init(env)
       IN  /\ op' = "NutritionAPI"
           /\ input' = NoInput
           /\ outcome' = made.outcome
           /\ netlog' = <<>>
           /\ heap' = IF made.self = NoClient THEN heap
                      ELSE [heap EXCEPT !.nutrition_api = made.self]
           /\ UNCHANGED <<fpTieUp, env, threads>>

GenerateSmallMealPlan ==
    /\ op = "none"
    /\ heap.meal_planner # NoClient
    /\ \E call \in FewPlannerCalls : CallGenerateMealPlan(call)

\* nothing is constructed yet; each key is unset, empty or set
InitClients ==
    /\ op = "none"
    /\ input = NoInput
    /\ outcome = NoOutcome
    /\ netlog = <<>>
    /\ fpTieUp \in BOOLEAN
    /\ env \in {Environment(a, b) : a \in KeySettings, b \in KeySettings}
    /\ heap = [ACTIVITY_MULTIPLIERS |-> ACTIVITY_MULTIPLIERS,
               meal_planner |-> NoClient, nutrition_api |-> NoClient,
               session_state |-> SessionStart]
    /\ threads = NoThreads

NextClients ==
    \/ ConstructMealPlanner
    \/ ConstructNutritionAPI
    \/ GenerateSmallMealPlan
    \/ SearchFoods
    \/ GetFoodDetails
    \/ Return

SpecClients == InitClients /\ [][NextClients]_vars

(***************************************************************************)
(* Nutrition lookup client: properties                                     *)
(***************************************************************************)
IsCreateTables == op = "create_nutrient_tables"

\* the entries of the raw record that carry a recognized identifier
RecognizedEntries(food_data) ==
    IF food_data.t = "dict" /\ "foodNutrients" \in DOMAIN food_data.d
    THEN SelectSeq(food_data.d.foodNutrients,
            LAMBDA n : /\ n.t = "dict"
                       /\ "nutrient" \in DOMAIN n.d
                       /\ "id" \in DOMAIN n.d.nutrient
                       /\ n.d.nutrient.id \in RecognizedIds)
    ELSE <<>>

\* C7: with grams = 0 and at least one recognized nutrient in the record,
\* create_nutrient_tables returns tables or raises its ValueError, never a
\* division by zero
C7_NoDivisionByZero ==
    IsCreateTables /\ input.amount_g.v = 0
    /\ RecognizedEntries(input.food_data) # <<>>
        => outcome.kind \in {"tables", "ValueError"}

\* C8: every failure of create_nutrient_tables is a ValueError with the
\* original message, and no tables are returned with it
C8_FailuresAreValueErrors ==
    IsCreateTables /\ outcome.kind # "tables"
        => outcome.kind = "ValueError" /\ outcome.msg # ""

(***************************************************************************)
(* Meal plan client: requests sent                                         *)
(***************************************************************************)
PlannerRequestIndices ==
    {i \in 1..Len(netlog) : netlog[i].url = BASE_URL}

\* C11: every call of generate_meal_plan sends exactly one request to the
\* generate endpoint, the first request of the call, whatever the outcome;
\* when the call ends with an error, nothing else was sent.
C11_OnePlannerRequest ==
    IsGenerate =>
        /\ Cardinality(PlannerRequestIndices) = 1
        /\ netlog[1].url = BASE_URL
        /\ (outcome.kind = "ValueError" => Len(netlog) = 1)

C11_Witness ==
    /\ IsGenerate
    /\ input.resp.kind = "http"
    /\ input.resp.status = 429
    /\ outcome = PlanError(MsgRateLimit)
    /\ netlog = PlannerRequests(netlog[1].params)

(***************************************************************************)
(* Nutrition lookup client: requests sent                                  *)
(***************************************************************************)
IsLookup == op \in {"search_foods", "get_food_details"}

\* the message names the status the service answered with
CarriesStatus(msg, status) ==
    \E i \in 1..Len(msg) : msg[i] = ToString(status)

\* C18: search_foods and get_food_details send exactly one request per call;
\* on a transport failure or a non-2xx response the call fails with the
\* wrapped request error, which carries the status of an HTTP failure, and
\* returns no result
C18_LookupFailures ==
    IsLookup =>
        /\ Len(netlog) = 1
        /\ (input.resp.kind = "transport" \/ Non2xx(input.resp)
              => /\ outcome.kind = "Exception"
                 /\ Non2xx(input.resp)
                      => CarriesStatus(outcome.msg, input.resp.status))

(***************************************************************************)
(* Construction: properties                                                *)
(***************************************************************************)
Absent(name) == env[name] \in {NoneValue, Str(<<>>)}

\* C12: with the key unset or empty the constructor raises its configuration
\* error, sends nothing and leaves no client object, and no request is ever
\* sent through such a client
C12_NoClientWithoutKey ==
    /\ Absent("SPOONACULAR_API_KEY")
         => /\ heap.meal_planner = NoClient
            /\ ~IsGenerate
            /\ op = "MealPlanner"
                 => /\ outcome = Raised("ValueError", MsgNoSpoonacularKey)
                    /\ netlog = <<>>
    /\ Absent("USDA_API_KEY")
         => /\ heap.nutrition_api = NoClient
            /\ ~IsLookup
            /\ op = "NutritionAPI"
                 => /\ outcome = Raised("ValueError", MsgNoUsdaKey)
                    /\ netlog = <<>>
    /\ op \in {"MealPlanner", "NutritionAPI"} => netlog = <<>>

C12_Witness ==
    /\ op = "MealPlanner"
    /\ env["SPOONACULAR_API_KEY"] = Str(<<>>)
    /\ outcome = Raised("ValueError", MsgNoSpoonacularKey)
    /\ heap.meal_planner = NoClient
    /\ heap.nutrition_api # NoClient

(***************************************************************************)
(* Nutrition lookup client: conversion and tables                          *)
(***************************************************************************)
IsConvert == op = "convert_to_grams"

SupportedUnits == {"g", "oz", "ml", "fl_oz"}

\* grams per unit in hundredths: 1.0, 28.35, 1.0, 29.57
GramsPerUnit(unit) ==
    CASE unit = "g" -> 100
      [] unit = "oz" -> 2835
      [] unit = "ml" -> 100
      [] unit = "fl_oz" -> 2957

\* C13: convert_to_grams returns amount x constant for g, oz, ml and fl_oz
\* and raises the unsupported-unit error, with no value, for any other
\* token; the table of the client stays as constructed; 100 oz are 2835.0 g
\* and 1 fl_oz is 29.57 g
C13_UnitConversion ==
    /\ heap.nutrition_api.UNIT_CONVERSIONS =
         [unit \in SupportedUnits |-> GramsPerUnit(unit)]
    /\ IsConvert =>
         /\ input.unit \in SupportedUnits
              => outcome = [kind |-> "value",
                            val |-> input.amount * GramsPerUnit(input.unit),
                            msg |-> <<>>]
         /\ input.unit \notin SupportedUnits
              => /\ outcome.kind = "ValueError"
                 /\ outcome.val = 0
                 /\ outcome.msg[1] = "Unsupported unit:"
                 /\ outcome.msg[2] = input.unit
         /\ input = [amount |-> 100, unit |-> "oz"] => outcome.val = 283500
         /\ input = [amount |-> 1, unit |-> "fl_oz"] => outcome.val = 2957

C13_Witness ==
    /\ IsConvert
    /\ input = [amount |-> 100, unit |-> "lb"]
    /\ outcome.kind = "ValueError"
    /\ heap.nutrition_api.UNIT_CONVERSIONS = UNIT_CONVERSIONS

\* what a raw entry reports: name, unit and per-100g amount in tenths
EntryName(n) == Get(Get(n.d, "nutrient", <<>>), "name", "None")

EntryUnit(n) == Get(Get(n.d, "nutrient", <<>>), "unitName", "g")

EntryAmount(n) == Get(n.d, "amount", Num("int", 0)).v

TablesReturned == IsCreateTables /\ outcome.kind = "tables"

Rows == outcome.main \o outcome.additional

RowsNamed(table, name) ==
    {i \in 1..Len(table) : table[i].Nutrient = name}

\* C14: for grams > 0 every recognized nutrient reported with the per-100g
\* amount A is shown with amount-per-100g A and with the scaled amount
\* A x grams / 100 (to the tenth that is displayed)
C14_RoundTrip ==
    TablesReturned /\ input.amount_g.v > 0 =>
        LET rec == RecognizedEntries(input.food_data)
            grams == input.amount_g.v
        IN  \A k \in 1..Len(rec) :
              LET A == EntryAmount(rec[k])
              IN  /\ \E i \in RowsNamed(Rows, EntryName(rec[k])) :
                       /\ Rows[i].AmountPer100g = <<A, EntryUnit(rec[k])>>
                       /\ Abs(10000 * Rows[i].Amount[1] - A * grams) <= 5000
                       /\ Rows[i].Amount[2] = EntryUnit(rec[k])
                  /\ \A i \in RowsNamed(outcome.pie, EntryName(rec[k])) :
                       outcome.pie[i].AmountPer100g = A

C14_Witness ==
    /\ TablesReturned
    /\ input.amount_g = Num("float", 2835)
    /\ Len(outcome.main) = 2
    /\ Len(outcome.additional) = 1
    /\ outcome.main[2].AmountPer100g = <<105, "g">>
    /\ outcome.main[2].Amount = <<30, "g">>

PrimaryNames ==
    {"Energy", "Protein", "Total lipid (fat)", "Carbohydrate, by difference",
     "Fiber, total dietary", "Sugars, Total", "Water"}

\* C15: every nutrient of the record with a recognized identifier has one
\* row in exactly one table, the primary table if its name is one of the 7
\* primary names and the secondary table otherwise, and every row of either
\* table comes from a nutrient with a recognized identifier
C15_TableSplit ==
    TablesReturned =>
        LET rec == RecognizedEntries(input.food_data)
        IN  /\ \A k \in 1..Len(rec) :
                 LET name == EntryName(rec[k])
                     inMain == Cardinality(RowsNamed(outcome.main, name))
                     inAdditional == Cardinality(RowsNamed(outcome.additional, name))
                 IN  IF name \in PrimaryNames
                     THEN inMain = 1 /\ inAdditional = 0
                     ELSE inMain = 0 /\ inAdditional = 1
            /\ \A i \in 1..Len(Rows) :
                 \E k \in 1..Len(rec) :
                    /\ Rows[i].Nutrient = EntryName(rec[k])
                    /\ Rows[i].Amount[2] = EntryUnit(rec[k])

C15_Witness ==
    /\ TablesReturned
    /\ input.food_data =
         Dict([foodNutrients |->
                 <<NutrientEntry(1062, "Energy", "kJ", Num("int", 2180)),
                   NutrientEntry(2000, "Sugars, total including NLEA", "g",
                                 Num("float", 104)),
                   NutrientEntry(1003, "Protein", "g", Num("float", 105))>>])
    /\ Len(outcome.main) = 1
    /\ outcome.main[1].Nutrient = "Protein"
    /\ Len(outcome.additional) = 1
    /\ outcome.additional[1].Nutrient = "Sugars, total including NLEA"

(***************************************************************************)
(* Meal plan client: summary entries                                       *)
(***************************************************************************)
Titles == [e \in 1..Len(outcome.meals) |-> outcome.meals[e].title]

Min(a, b) == IF a <= b THEN a ELSE b

\* C16: the plan has one summary entry per non-empty bucket and none for an
\* empty one, in the order Breakfast, Lunch, Dinner: n meals give min(n, 3)
\* entries, each titled with the label of its bucket
C16_EntriesPerBucket ==
    PlanReturned =>
        LET n == Len(ReturnedMeals)
        IN  /\ n >= 1
            /\ Len(outcome.meals) = Min(n, 3)
            /\ Titles = SubSeq(<<"Breakfast", "Lunch", "Dinner">>, 1, Min(n, 3))
            /\ \A e \in 1..Len(outcome.meals) :
                  /\ outcome.meals[e].meals # <<>>
                  /\ \A j \in 1..Len(outcome.meals[e].meals) :
                        outcome.meals[e].meals[j].id % 3 = e - 1

C16_Witness ==
    /\ PlanReturned
    /\ Len(ReturnedMeals) = 2
    /\ Titles = <<"Breakfast", "Lunch">>

AllEmbedded(members) ==
    \A j \in 1..Len(members) : ~NoEmbeddedNutrition(members[j])

RECURSIVE EmbeddedSum(_, _)
\* the sum of one embedded field over the members, a missing field being 0
EmbeddedSum(members, k) ==
    IF members = <<>> THEN 0
    ELSE (IF k \in DOMAIN members[1].nutrition THEN members[1].nutrition[k] ELSE 0)
         + EmbeddedSum(Tail(members), k)

\* C17: for every bucket whose members all carry embedded nutrition, each of
\* calories, protein, fat and carbs of its entry is the sum of that field
\* over the members, a missing field counting as 0, rounded to 2 decimals
C17_EmbeddedBucketSums ==
    PlanReturned =>
        \A e \in 1..Len(outcome.meals) :
            AllEmbedded(outcome.meals[e].meals) =>
                \A k \in Nutrients :
                    Nearest(outcome.meals[e].nutrition[k],
                            EmbeddedSum(outcome.meals[e].meals, k))

C17_Witness ==
    /\ PlanReturned
    /\ Len(outcome.meals[1].meals) = 2
    /\ AllEmbedded(outcome.meals[1].meals)
    /\ outcome.meals[1].nutrition["calories"] = 100001
    /\ outcome.meals[1].nutrition["fat"] = 4001

(***************************************************************************)
(* Meal plan page: actual macro distribution (app.py)                      *)
(*                                                                         *)
(* Grams are hundredths.  A percentage is the exact quotient num / den.    *)
(***************************************************************************)
Quotient(num, den) == [num |-> num, den |-> den]

ZeroPercent == Quotient(0, 1)

\* lines 543-545: ... if total_macros > 0 else 0
MacrosPositiveOrZero(total_macros) ==
    total_macros >= 0

MacrosPositive(total_macros) ==
    total_macros > 0

\* x / total_macros * 100
PercentOf(x, total_macros) ==
    IF total_macros = 0
    THEN [kind |-> "ZeroDivisionError", q |-> ZeroPercent]
    ELSE [kind |-> "value", q |-> Quotient(100 * x, total_macros)]

\* lines 541-545: the three percentages of the actual distribution
actual_macro_distribution(nutrients) ==
    LET total_macros == Get(nutrients, "protein", 0) + Get(nutrients, "fat", 0)
                        + Get(nutrients, "carbs", 0)
        share(key) == IF MacrosPositive(total_macros)
                      THEN PercentOf(Get(nutrients, key, 0), total_macros)
                      ELSE [kind |-> "value", q |-> ZeroPercent]
    IN  IF \E key \in {"protein", "fat", "carbs"} : share(key).kind # "value"
        THEN [kind |-> "ZeroDivisionError", divided |-> TRUE,
              msg |-> "float division by zero"]
        ELSE [kind |-> "percentages", divided |-> MacrosPositive(total_macros),
              actual_protein |-> share("protein").q,
              actual_fat |-> share("fat").q,
              actual_carbs |-> share("carbs").q]

\* 0, 0.01, 3.33, 10 and 10.5 g
MacroGrams == {0, 1, 333, 1000, 1050}

PlanNutrients ==
    {[calories |-> 200000, protein |-> a, fat |-> b, carbs |-> c] :
        a \in MacroGrams, b \in MacroGrams, c \in MacroGrams}
    \cup {[calories |-> 200000, protein |-> a] : a \in MacroGrams}

ActualMacroDistribution ==
    /\ op = "none"
    /\ \E nutrients \in PlanNutrients :
        /\ op' = "actual_macro_distribution"
        /\ input' = [nutrients |-> nutrients]
        /\ outcome' = actual_macro_distribution(nutrients)
        /\ netlog' = <<>>
        /\ UNCHANGED <<fpTieUp, env, heap, threads>>

NextMacros ==
    \/ ActualMacroDistribution
    \/ Return

SpecMacros == Init /\ [][NextMacros]_vars

IsMacros == op = "actual_macro_distribution"

\* q is x / total x 100
IsPercentOf(q, x, total) ==
    q.den # 0 /\ q.num * total = 100 * x * q.den

\* C19: each actual percentage is its macro's grams over the sum of the
\* three, times 100; with a sum of 0 all three are 0 and nothing is divided;
\* with a positive sum the three add up to 100
C19_MacroPercentages ==
    IsMacros =>
        LET protein == Get(input.nutrients, "protein", 0)
            fat == Get(input.nutrients, "fat", 0)
            carbs == Get(input.nutrients, "carbs", 0)
            total == protein + fat + carbs
        IN  /\ outcome.kind = "percentages"
            /\ total = 0
                 => /\ ~outcome.divided
                    /\ outcome.actual_protein.num = 0
                    /\ outcome.actual_fat.num = 0
                    /\ outcome.actual_carbs.num = 0
            /\ total > 0
                 => /\ IsPercentOf(outcome.actual_protein, protein, total)
                    /\ IsPercentOf(outcome.actual_fat, fat, total)
                    /\ IsPercentOf(outcome.actual_carbs, carbs, total)
                    /\ outcome.actual_protein.den = outcome.actual_fat.den
                    /\ outcome.actual_fat.den = outcome.actual_carbs.den
                    /\ outcome.actual_protein.num + outcome.actual_fat.num
                         + outcome.actual_carbs.num
                       = 100 * outcome.actual_protein.den

C19_Witness ==
    /\ IsMacros
    /\ input.nutrients.protein = 0
    /\ "fat" \in DOMAIN input.nutrients
    /\ input.nutrients.fat + input.nutrients.carbs = 0
    /\ ~outcome.divided
    /\ outcome.actual_carbs = ZeroPercent

(***************************************************************************)
(* Calls that overlap on the same clients                                  *)
(*                                                                         *)
(* Each caller runs one call at a time; the steps of two callers           *)
(* interleave.  threads.call[t] is the position and the local variables    *)
(* of the call of caller t, threads.frames[f] the four bucket totals       *)
(* total_calories .. total_carbs of the frame f and the callers that have  *)
(* used them.                                                              *)
(***************************************************************************)
MaxConcurrentMeals == 2

ThreadIds == {1, 2}

Idle == [pc |-> "idle"]

\* lines 218-222: the bucket totals are local variables of the call
FrameOfShared(t) ==
    1

FrameOf(t) ==
    t

ConcurrentScenarios ==
    SeqsUpTo(BasicScenarios, MaxConcurrentMeals) \ {<<>>}

InitThreads ==
    /\ op = "none"
    /\ input = NoInput
    /\ outcome = NoOutcome
    /\ netlog = <<>>
    /\ fpTieUp \in BOOLEAN
    /\ env = Environment(Str(S_key), Str(S_key))
    /\ heap = [ACTIVITY_MULTIPLIERS |-> ACTIVITY_MULTIPLIERS,
               meal_planner |-> MealPlanner_init(env).self,
               nutrition_api |-> NutritionAPI_init(env).self,
               session_state |-> SessionStart]
    /\ threads = [call |-> [t \in ThreadIds |-> Idle],
                  frames |-> [f \in ThreadIds |-> [totals |-> Zero4, users |-> {}]]]

\* the call of caller t moves to c; the frame f gets the totals
Moves(t, c) ==
    threads' = [threads EXCEPT !.call[t] = c]

MovesWithTotals(t, c, totals) ==
    threads' = [threads EXCEPT
                   !.call[t] = c,
                   !.frames[FrameOf(t)] =
                       [totals |-> totals, users |-> @.users \cup {t}]]

\* generate_meal_plan is called and its planner request is sent
CallGenerate ==
    /\ heap.meal_planner # NoClient
    /\ \E t \in ThreadIds, scen \in ConcurrentScenarios :
        /\ threads.call[t].pc = "idle"
        /\ Moves(t, [pc |-> "request", op |-> "generate_meal_plan", scen |-> scen])
    /\ UNCHANGED <<op, input, outcome, netlog, fpTieUp, env, heap>>

\* lines 149-156 and 194-211: the planner answers with the meals, which
\* are distributed
PlannerAnswers ==
    /\ \E t \in ThreadIds :
        /\ threads.call[t].pc = "request"
        /\ Moves(t, [threads.call[t] EXCEPT !.pc = "bucket"] @@
                    [meal_types |->
                        Distribute(MealsOf(threads.call[t].scen), 0,
                                   [l \in {"Breakfast", "Lunch", "Dinner"} |-> <<>>]),
                     k |-> 1, j |-> 1, processed_meals |-> <<>>,
                     total_daily |-> Zero4])
    /\ UNCHANGED <<op, input, outcome, netlog, fpTieUp, env, heap>>

\* lines 213-222 and 271-280: the next bucket, or the return of the plan,
\* with which the local variables of the call are gone
EnterBucket ==
    /\ \E t \in ThreadIds :
        LET c == threads.call[t]
        IN  /\ c.pc = "bucket"
            /\ IF c.k > Len(MealTypeKeys)
               THEN MovesWithTotals(t,
                        [pc |-> "done", op |-> c.op, scen |-> c.scen,
                         result |-> [kind |-> "plan",
                                     meals |-> c.processed_meals,
                                     nutrients |-> Rounded4(c.total_daily, fpTieUp)]],
                        Zero4)
               ELSE IF c.meal_types[MealTypeKeys[c.k]] = <<>>
               THEN Moves(t, [c EXCEPT !.k = @ + 1])
               ELSE MovesWithTotals(t, [c EXCEPT !.pc = "member", !.j = 1], Zero4)
    /\ UNCHANGED <<op, input, outcome, netlog, fpTieUp, env, heap>>

\* lines 225-247: one member of the bucket is added to the bucket totals
AddMember ==
    /\ \E t \in ThreadIds :
        LET c == threads.call[t]
        IN  /\ c.pc = "member"
            /\ c.j <= Len(c.meal_types[MealTypeKeys[c.k]])
            /\ LET meal == c.meal_types[MealTypeKeys[c.k]][c.j]
               IN  MovesWithTotals(t, [c EXCEPT !.j = @ + 1],
                       Add4(threads.frames[FrameOf(t)].totals,
                            MealContribution(meal, SecOf(c.scen)[meal.id])))
    /\ UNCHANGED <<op, input, outcome, netlog, fpTieUp, env, heap>>

\* lines 249-269: the bucket totals go to the daily totals and to the entry
CloseBucket ==
    /\ \E t \in ThreadIds :
        LET c == threads.call[t]
        IN  /\ c.pc = "member"
            /\ c.j > Len(c.meal_types[MealTypeKeys[c.k]])
            /\ LET type_meals == c.meal_types[MealTypeKeys[c.k]]
                   totals == threads.frames[FrameOf(t)].totals
                   entry == [ProcessedEntry(MealTypeKeys[c.k], type_meals,
                                            SecOf(c.scen), fpTieUp)
                               EXCEPT !.nutrition = Rounded4(totals, fpTieUp)]
               IN  Moves(t, [c EXCEPT !.pc = "bucket", !.k = @ + 1,
                                      !.processed_meals = Append(@, entry),
                                      !.total_daily = Add4(@, totals)])
    /\ UNCHANGED <<op, input, outcome, netlog, fpTieUp, env, heap>>
\* convert_to_grams reads the conversion table of the client
CallConvertToGrams ==
    /\ heap.nutrition_api # NoClient
    /\ \E t \in ThreadIds, amount \in {100}, unit \in {"oz", "lb"} :
        /\ threads.call[t].pc = "idle"
        /\ Moves(t, [pc |-> "done", op |-> "convert_to_grams",
                     scen |-> [amount |-> amount, unit |-> unit],
                     result |-> convert_to_grams(heap.nutrition_api, amount, unit)])
    /\ UNCHANGED <<op, input, outcome, netlog, fpTieUp, env, heap>>

\* calculate_daily_calories reads the table of activity multipliers
CallCalculateDailyCalories ==
    /\ \E t \in ThreadIds, l \in {Str(S_sedentary), Str(S_VERY_ACTIVE)} :
        /\ threads.call[t].pc = "idle"
        /\ Moves(t, [pc |-> "done", op |-> "calculate_daily_calories",
                     scen |-> l,
                     result |-> calculate_daily_calories(
                                    ExampleMetrics.weight, ExampleMetrics.height,
                                    ExampleMetrics.age, ExampleMetrics.gender, l,
                                    fpTieUp)])
    /\ UNCHANGED <<op, input, outcome, netlog, fpTieUp, env, heap>>

ConcurrentFood ==
    Dict([foodNutrients |->
            <<NutrientEntry(1003, "Protein", "g", Num("float", 105)),
              NutrientEntry(1089, "Iron, Fe", "mg", Num("float", 12))>>])

\* create_nutrient_tables works on its arguments only
CallCreateNutrientTables ==
    /\ heap.nutrition_api # NoClient
    /\ \E t \in ThreadIds, amount_g \in {Num("float", 2835), Num("int", 0)} :
        /\ threads.call[t].pc = "idle"
        /\ Moves(t, [pc |-> "done", op |-> "create_nutrient_tables",
                     scen |-> amount_g,
                     result |-> create_nutrient_tables(ConcurrentFood, amount_g,
                                                       fpTieUp)])
    /\ UNCHANGED <<op, input, outcome, netlog, fpTieUp, env, heap>>

\* the caller takes the result
ReturnCall ==
    /\ \E t \in ThreadIds :
        /\ threads.call[t].pc = "done"
        /\ Moves(t, Idle)
    /\ UNCHANGED <<op, input, outcome, netlog, fpTieUp, env, heap>>

NextThreads ==
    \/ CallGenerate
    \/ PlannerAnswers
    \/ EnterBucket
    \/ AddMember
    \/ CloseBucket
    \/ CallConvertToGrams
    \/ CallCalculateDailyCalories
    \/ CallCreateNutrientTables
    \/ ReturnCall

SpecThreads == InitThreads /\ [][NextThreads]_vars

\* what the call gives when it runs alone
SequentialResult(c) ==
    CASE c.op = "generate_meal_plan" ->
            process_meal_plan(MealsOf(c.scen), SecOf(c.scen), fpTieUp).plan
      [] c.op = "convert_to_grams" ->
            convert_to_grams(NutritionAPI_init(env).self, c.scen.amount, c.scen.unit)
      [] c.op = "create_nutrient_tables" ->
            create_nutrient_tables(ConcurrentFood, c.scen, fpTieUp)
      [] c.op = "calculate_daily_calories" ->
            calculate_daily_calories(ExampleMetrics.weight, ExampleMetrics.height,
                                     ExampleMetrics.age, ExampleMetrics.gender,
                                     c.scen, fpTieUp)

\* C20: whatever the interleaving of two calls on the same clients, each
\* call returns what it returns when run alone, no two calls use the same
\* totals, and the table of activity multipliers and the table of unit
\* conversions stay as they were
C20_CallsAreIndependent ==
    /\ \A t \in ThreadIds :
          threads.call[t].pc = "done"
              => threads.call[t].result = SequentialResult(threads.call[t])
    /\ \A f \in ThreadIds : Cardinality(threads.frames[f].users) <= 1
    /\ heap.ACTIVITY_MULTIPLIERS = ACTIVITY_MULTIPLIERS
    /\ heap.nutrition_api.UNIT_CONVERSIONS = UNIT_CONVERSIONS

\* caller 1 has its plan while caller 2 is in the middle of a bucket
C20_Witness ==
    /\ threads.call[1].pc = "done"
    /\ threads.call[1].op = "generate_meal_plan"
    /\ Len(threads.call[1].result.meals) = 2
    /\ threads.call[2].pc = "member"
    /\ threads.call[2].j = 2
    /\ threads.frames[2].totals # Zero4
    /\ threads.frames[1].users = {1}

(***************************************************************************)
(* Meal plan page: the Generate Meal Plan button (app.py)                  *)
(***************************************************************************)
\* part in word, for a word of a message and a word of a search text: the
\* messages end their sentences with a full stop
WordContains(word, part) ==
    word = part \/ word = part \o "."

\* needle in error_message, both as word sequences
Contains(error_message, needle) ==
    \E i \in 0..(Len(error_message) - Len(needle)) :
        \A j \in 1..Len(needle) :
            IF j = Len(needle)
            THEN WordContains(error_message[i + j], needle[j])
            ELSE error_message[i + j] = needle[j]

\* lines 562-595: the branch of the except ValueError handler that is shown
error_guidance(error_message) ==
    IF Contains(error_message, <<"API", "daily", "limit", "reached">>)
    THEN "Daily API limit reached"
    ELSE IF Contains(error_message, <<"Invalid", "API", "key">>)
    THEN "Invalid API Key"
    ELSE IF Contains(error_message, <<"API", "rate", "limit", "exceeded">>)
    THEN "API Rate Limit Exceeded"
    ELSE "Error"

\* the planner answers the page is shown to handle
PageCalls ==
    {c \in PlannerCalls : Len(c.scen) <= 1}

\* lines 459-595: the button calls generate_meal_plan and shows the plan or
\* the guidance for the ValueError
ClickGenerateMealPlan ==
    /\ op = "none"
    /\ heap.meal_planner # NoClient
    /\ \E call \in PageCalls, diet \in Diets, exclude \in Exclusions :
        \E newer \in IF call.resp.kind = "http" /\ ~call.resp.json
                      THEN BOOLEAN ELSE {TRUE} :
          LET done == generate_meal_plan(heap.meal_planner, 2000, diet, exclude,
                                         "day", call.resp, SecOf(call.scen),
                                         fpTieUp, newer)
          IN  /\ op' = "click_generate_meal_plan"
              /\ input' = [resp |-> call.resp, sec |-> SecOf(call.scen)]
              /\ outcome' = IF done.outcome.kind = "ValueError"
                            THEN [kind |-> "guidance",
                                  shown |-> error_guidance(done.outcome.msg),
                                  error |-> done.outcome]
                            ELSE [kind |-> "charts", shown |-> "plan",
                                  plan |-> done.outcome,
                                  actual |-> actual_macro_distribution(
                                                 done.outcome.nutrients)]
              /\ netlog' = done.log
              /\ UNCHANGED <<fpTieUp, env, heap, threads>>

NextPage ==
    \/ ClickGenerateMealPlan
    \/ Return

SpecPage == Init /\ [][NextPage]_vars

IsClick == op = "click_generate_meal_plan"

\* C21: the quota error (402), the credentials error (401) and the
\* rate-limit error (429) each get their own guidance on the page, none of
\* them the generic one
C21_TailoredGuidance ==
    IsClick /\ input.resp.kind = "http" =>
        /\ input.resp.status = 402 => outcome.shown = "Daily API limit reached"
        /\ input.resp.status = 401 => outcome.shown = "Invalid API Key"
        /\ input.resp.status = 429 => outcome.shown = "API Rate Limit Exceeded"

(***************************************************************************)
(* Meal plan client: the nutrition fallback and the summary entries        *)
(***************************************************************************)
\* the requests of the call after the planner request
LaterRequests == Tail(netlog)

\* the recipe ids of the returned meals in bucket order
BucketOrder(n) == IndicesOf(0, n) \o IndicesOf(1, n) \o IndicesOf(2, n)

\* C22: the nutrition endpoint is called exactly once for each returned meal
\* whose embedded nutrition is absent or empty and never for another meal,
\* in bucket order, after the planner request, and only in a call that got
\* its meals; a failed call is not sent again
C22_SecondaryCalls ==
    IsGenerate =>
        /\ \A i \in 1..Len(LaterRequests) :
              LaterRequests[i].url = RECIPE_NUTRITION_URL
        /\ LaterRequests # <<>> => PlanReturned
        /\ PlanReturned =>
              [i \in 1..Len(LaterRequests) |-> LaterRequests[i].id]
                = SelectSeq(BucketOrder(Len(ReturnedMeals)),
                            LAMBDA id : NoEmbeddedNutrition(ReturnedMeals[id + 1]))

C22_Witness ==
    /\ PlanReturned
    /\ Len(ReturnedMeals) = 4
    /\ Len(netlog) = 3
    /\ netlog[2].id = 3
    /\ netlog[3].id = 1
    /\ input.sec[3] = SecStatus(404)

RECURSIVE FieldSum(_, _)
\* the sum of one field over the members, a missing field being 0
FieldSum(members, field) ==
    IF members = <<>> THEN 0
    ELSE (IF field \in DOMAIN members[1] THEN members[1][field] ELSE 0)
         + FieldSum(Tail(members), field)

\* the non-empty source URLs of the members, in member order
SourceUrls(members) ==
    LET with == SelectSeq(members,
                    LAMBDA m : "sourceUrl" \in DOMAIN m /\ m.sourceUrl # "")
    IN  [i \in 1..Len(with) |-> with[i].sourceUrl]

\* C23: each summary entry has the image base path followed by the image
\* reference of its first member, the sum of its members' prep times, the
\* sum of their servings (a missing value being 0) and, in member order,
\* exactly their non-empty source URLs
C23_EntryFields ==
    PlanReturned =>
        \A e \in 1..Len(outcome.meals) :
            LET entry == outcome.meals[e]
                first == entry.meals[1]
            IN  /\ entry.image =
                     <<"https://spoonacular.com/recipeImages/",
                       IF "image" \in DOMAIN first THEN first.image ELSE "">>
                /\ entry.readyInMinutes = FieldSum(entry.meals, "readyInMinutes")
                /\ entry.servings = FieldSum(entry.meals, "servings")
                /\ entry.sourceUrl = SourceUrls(entry.meals)

C23_Witness ==
    /\ PlanReturned
    /\ Len(outcome.meals[1].meals) = 2
    /\ outcome.meals[1].image = <<IMAGE_BASE_URL, "a.jpg">>
    /\ outcome.meals[1].readyInMinutes = 50
    /\ outcome.meals[1].servings = 6
    /\ outcome.meals[1].sourceUrl = <<"http://a", "http://c">>

\* what a fetched meal adds to each sum when all four of its values are
\* added, in thousandths
WholeFetched(meal, k) ==
    IF ~NoEmbeddedNutrition(meal) \/ Skipped(meal) THEN 0 ELSE Worth(meal, k)

\* C26: a meal whose nutrition is fetched adds all four of its values to the
\* sums of its bucket or, when the fetch fails or one of the four values
\* does not parse, none of them: each bucket figure is the embedded sum plus
\* the whole values of the fetched members that were usable
C26_AllOrNothing ==
    PlanReturned =>
        \A e \in 1..Len(outcome.meals) :
            LET members == outcome.meals[e].meals
                embedded == SelectSeq(members, LAMBDA m : ~NoEmbeddedNutrition(m))
                fetched == SelectSeq(members, NoEmbeddedNutrition)
                whole(k) == FieldSum([j \in 1..Len(fetched) |->
                                        [v |-> WholeFetched(fetched[j], k)]], "v")
            IN  \A k \in Nutrients :
                    Nearest(outcome.meals[e].nutrition[k],
                            EmbeddedSum(embedded, k) + whole(k))

\* three of the four fetched values parse and none is added
C26_Witness ==
    /\ PlanReturned
    /\ Len(ReturnedMeals) = 1
    /\ NoEmbeddedNutrition(ReturnedMeals[1])
    /\ input.sec[0] = SecOk(WidgetBadCarbs)
    /\ outcome.meals[1].nutrition = Zero4

\* C27: the member lists of the entries hold every returned meal exactly
\* once; a meal whose nutrition was skipped is still a member and still
\* counts in the prep time, the servings and the source URLs of its entry
C27_EveryMealCounted ==
    PlanReturned =>
        LET n == Len(ReturnedMeals)
            places(i) == {<<e, j>> \in (1..Len(outcome.meals)) \X (1..n) :
                             /\ j <= Len(outcome.meals[e].meals)
                             /\ outcome.meals[e].meals[j] = ReturnedMeals[i]}
        IN  /\ \A i \in 1..n : Cardinality(places(i)) = 1
            /\ FieldSum([e \in 1..Len(outcome.meals) |->
                           [v |-> Len(outcome.meals[e].meals)]], "v") = n
            /\ \A i \in 1..n :
                  Skipped(ReturnedMeals[i]) =>
                      \A p \in places(i) :
                          LET entry == outcome.meals[p[1]]
                              others == SelectSeq(entry.meals,
                                            LAMBDA m : m # ReturnedMeals[i])
                          IN  /\ entry.readyInMinutes
                                   = FieldSum(others, "readyInMinutes")
                                     + FieldSum(<<ReturnedMeals[i]>>, "readyInMinutes")
                              /\ entry.servings
                                   = FieldSum(others, "servings")
                                     + FieldSum(<<ReturnedMeals[i]>>, "servings")
                              /\ \A u \in 1..Len(SourceUrls(<<ReturnedMeals[i]>>)) :
                                    \E v \in 1..Len(entry.sourceUrl) :
                                        entry.sourceUrl[v] = ReturnedMeals[i].sourceUrl

C27_Witness ==
    /\ PlanReturned
    /\ Len(ReturnedMeals) = 4
    /\ Skipped(ReturnedMeals[4])
    /\ ~Skipped(ReturnedMeals[1])
    /\ outcome.meals[1].meals = <<ReturnedMeals[1], ReturnedMeals[4]>>
    /\ outcome.meals[1].readyInMinutes = 50
    /\ outcome.meals[1].nutrition["calories"] = 50000

(***************************************************************************)
(* Calculator page and the calorie goal of the meal plan page (app.py)     *)
(*                                                                         *)
(* A click runs the whole script: the handler of the button stores the     *)
(* estimate in the session, and the goal input further down is drawn with  *)
(* it.                                                                     *)
(***************************************************************************)
\* int(x) for x in hundredths: truncation towards zero
IntOf(val) ==
    IF val >= 0 THEN val \div 100 ELSE 0 - ((0 - val) \div 100)

\* lines 376-392: the value the goal input starts with
goal_input_value(calorie_goal) ==
    IF calorie_goal # 0 THEN IntOf(calorie_goal) ELSE 2000

\* 1, 20, 45, 70 and 300 kg, as the weight input gives them
PageWeights == {Num("float", k) : k \in {4, 80, 180, 280, 1200}}

\* 1, 100, 150, 170, 250 and 300 cm
PageHeights == {Num("float", k) : k \in {4, 400, 600, 680, 1000, 1200}}

\* 1, 15, 30, 80, 100 and 120 years
PageAges == {Num("int", k) : k \in {4, 60, 120, 320, 400, 480}}

PageGenders == {Str(S_male), Str(S_female)}

PageActivityLevels ==
    {Str(S_sedentary), Str(S_lightly_active), Str(S_moderately_active),
     Str(S_very_active), Str(S_extra_active)}

\* lines 153-165 and 374-392
ClickCalculateCalorieNeeds ==
    /\ op = "none"
    /\ \E w \in PageWeights, h \in PageHeights, a \in PageAges,
          g \in PageGenders, l \in PageActivityLevels :
        LET v == validate_inputs(w, h, a, g, l)
            daily_calories == calculate_daily_calories(w, h, a, g, l, fpTieUp)
        IN  /\ op' = "click_calculate_calorie_needs"
            /\ input' = Metrics(w, h, a, g, l)
            /\ outcome' = IF v.ok
                          THEN [kind |-> "goal",
                                calorie_goal |-> daily_calories.val,
                                goal_input |-> goal_input_value(daily_calories.val)]
                          ELSE [kind |-> "error", msg |-> v.msg]
            /\ netlog' = <<>>
            /\ UNCHANGED <<fpTieUp, env, heap, threads>>

NextGoal ==
    \/ ClickCalculateCalorieNeeds
    \/ Return

SpecGoal == Init /\ [][NextGoal]_vars

\* C24: a calorie goal carried over from the calculator is, truncated to an
\* integer, within the range 1000..10000 that the goal input accepts
C24_GoalWithinRange ==
    op = "click_calculate_calorie_needs" /\ outcome.kind = "goal"
        => 1000 <= outcome.goal_input /\ outcome.goal_input <= 10000

\* ---------------------------------------------------------------------
\* The food lookup page (app.py, tab2): one script run, and the runs a
\* widget event sets off.  Texts are sequences of characters.
\* ---------------------------------------------------------------------

\* needle in text
InText(needle, text) ==
    \E i \in 0..(Len(text) - Len(needle)) :
        SubSeq(text, i + 1, i + Len(needle)) = needle

\* lines 235-239
liquid_categories ==
    <<
       <<"b","e","v","e","r","a","g","e","s">>,
       <<"d","r","i","n","k","s">>,
       <<"j","u","i","c","e","s">>,
       <<"s","o","u","p","s">>,
       <<"b","r","o","t","h","s">>,
       <<"w","a","t","e","r">>,
       <<"a","l","c","o","h","o","l","i","c">>,
       <<"a","l","c","o","h","o","l">>,
       <<"b","e","e","r">>,
       <<"w","i","n","e">>,
       <<"s","p","i","r","i","t","s">>,
       <<"c","o","c","k","t","a","i","l">>,
       <<"c","o","f","f","e","e">>,
       <<"t","e","a">>,
       <<"s","o","d","a">>,
       <<"s","o","f","t"," ","d","r","i","n","k">>,
       <<"c","a","r","b","o","n","a","t","e","d">> >>

\* line 297
selection_liquid_categories ==
    <<
       <<"b","e","v","e","r","a","g","e","s">>,
       <<"d","r","i","n","k","s">>,
       <<"j","u","i","c","e","s">>,
       <<"s","o","u","p","s">>,
       <<"b","r","o","t","h","s">>,
       <<"w","a","t","e","r">> >>

\* any(category in text for category in categories)
AnyIn(categories, text) ==
    \E i \in 1..Len(categories) : InText(categories[i], text)

\* lines 230-246: the flag a search derives from its first result
is_liquid_food(first_food) ==
    LET food_category == Lower(Get(first_food, "foodCategory", <<>>))
        food_description == Lower(Get(first_food, "description", <<>>))
    IN  AnyIn(liquid_categories, food_category)
            \/ AnyIn(liquid_categories, food_description)

\* line 278: the descriptions offered by the radio
food_options(foods) ==
    [i \in 1..Len(foods) |-> Get(foods[i], "description", <<>>)]

\* next((food for food in search_results if description == selected), None)
FoodByDescription(foods, description) ==
    SelectSeq(foods, LAMBDA food : Get(food, "description", <<>>) = description)

\* lines 201-213: the lists the unit selectbox offers
unit_options(is_liquid) ==
    IF is_liquid THEN <<"ml", "fl_oz">> ELSE <<"g", "oz">>

\* the unit selectbox: the value chosen in the list it is drawn with
unit_selected(ss) ==
    IF ss.is_liquid THEN ss.unit_liquid ELSE ss.unit_solid

NoSearch == [food_name |-> <<>>, resp |-> Transport]

NoEvent == [toggle |-> FALSE, search |-> FALSE, clicked |-> NoSearch]

\* lines 287-298 without the st.rerun() of line 299
selection_changed_no_rerun(ss, selected_food) ==
    LET selected_food_data == FoodByDescription(ss.search_results, selected_food)
    IN  [ss |-> [ss EXCEPT
                    !.selected_food = selected_food,
                    !.is_liquid =
                        IF selected_food_data # <<>>
                        THEN AnyIn(selection_liquid_categories,
                                   Lower(Get(selected_food_data[1], "foodCategory", <<>>)))
                        ELSE @],
         rerun |-> FALSE]

\* lines 287-299: the new selection is stored, the flag follows the selected
\* food's category, and the script is run again
selection_changed(ss, selected_food) ==
    [selection_changed_no_rerun(ss, selected_food) EXCEPT !.rerun = TRUE]

\* lines 186-330, one run of the script over the session ss: the widgets are
\* drawn, the handler of the event runs, and the details of the selected food
\* are looked up and tabulated unless st.rerun() ended the run before
food_tab_run(self, ss, event, details, tieUp) ==
    LET quantity == ss.quantity
        drawn == IF ss.selected_food = <<>>
                 THEN [ss EXCEPT !.is_liquid = IF event.toggle THEN ~@ ELSE @]
                 ELSE ss
        unit == unit_selected(drawn)
        found == IF event.search /\ event.clicked.food_name # <<>>
                 THEN search_foods(self, event.clicked.food_name, 10,
                                   event.clicked.resp, TRUE)
                 ELSE [outcome |-> [kind |-> "none", val |-> <<>>, msg |-> <<>>],
                       log |-> <<>>]
        foods == IF found.outcome.kind = "result"
                 THEN Get(found.outcome.val, "foods", <<>>)
                 ELSE <<>>
    IN  IF foods # <<>>
        THEN [ss |-> [drawn EXCEPT
                        !.is_liquid = is_liquid_food(foods[1]),
                        !.selected_food_category =
                            Lower(Get(foods[1], "foodCategory", <<>>)),
                        !.search_results = foods,
                        !.selected_food = <<>>],
              rerun |-> TRUE, calls |-> <<>>, log |-> found.log]
        ELSE IF drawn.search_results = <<>>
        THEN [ss |-> drawn, rerun |-> FALSE, calls |-> <<>>, log |-> found.log]
        ELSE
        LET options == food_options(drawn.search_results)
            selected_food ==
                IF \E i \in 1..Len(options) : options[i] = drawn.food_selection
                THEN drawn.food_selection
                ELSE <<>>
            handled == IF selected_food # drawn.selected_food
                       THEN selection_changed(drawn, selected_food)
                       ELSE [ss |-> drawn, rerun |-> FALSE]
            now == handled.ss
            selected_food_data == FoodByDescription(now.search_results, now.selected_food)
        IN  IF handled.rerun
            THEN [ss |-> now, rerun |-> TRUE, calls |-> <<>>, log |-> found.log]
            ELSE IF now.selected_food = <<>> \/ selected_food_data = <<>>
            THEN [ss |-> now, rerun |-> FALSE, calls |-> <<>>, log |-> found.log]
            ELSE
            LET looked == get_food_details(self, selected_food_data[1].fdcId,
                                           details, TRUE)
                grams == convert_to_grams(self, quantity, unit)
            IN  [ss |-> now, rerun |-> FALSE, log |-> found.log \o looked.log,
                 calls |->
                    IF looked.outcome.kind # "result" THEN <<>>
                    ELSE <<[is_liquid |-> now.is_liquid,
                            quantity |-> quantity,
                            unit |-> unit,
                            grams |-> grams,
                            tables |->
                                IF grams.kind # "value" THEN [kind |-> "none"]
                                ELSE create_nutrient_tables(
                                         Dict(looked.outcome.val),
                                         Num("float", grams.val), tieUp)]>>]

RECURSIVE food_tab(_, _, _, _, _)
\* the run an event sets off and the runs st.rerun() starts after it, which
\* see no event
food_tab(self, ss, event, details, tieUp) ==
    LET run == food_tab_run(self, ss, event, details, tieUp)
    IN  IF ~run.rerun THEN run
        ELSE LET rest == food_tab(self, run.ss, NoEvent, details, tieUp)
             IN  [rest EXCEPT !.calls = run.calls \o @, !.log = run.log \o @]

S_Apple == <<"A","p","p","l","e",","," ","r","a","w">>

S_Rice == <<"R","i","c","e",","," ","w","h","i","t","e">>

S_GreenTea == <<"G","r","e","e","n"," ","T","e","a",","," ","b","r","e","w","e","d">>

S_FruitJuices == <<"F","r","u","i","t","s"," ","a","n","d"," ","F","r","u","i","t"," ","J","u","i","c","e","s">>

S_CerealGrains == <<"C","e","r","e","a","l"," ","G","r","a","i","n","s"," ","a","n","d"," ","P","a","s","t","a">>

FoodApple == [fdcId |-> 171688, description |-> S_Apple, foodCategory |-> S_FruitJuices]

FoodRice == [fdcId |-> 168877, description |-> S_Rice, foodCategory |-> S_CerealGrains]

FoodGreenTea == [fdcId |-> 171917, description |-> S_GreenTea]

\* the answers to a search: none, solid first, a liquid category first, a
\* liquid description first
PageSearchResults ==
    { [foods |-> <<>>],
      [foods |-> <<FoodRice, FoodApple>>],
      [foods |-> <<FoodApple, FoodRice>>],
      [foods |-> <<FoodGreenTea, FoodRice>>] }

PageSearchResponses ==
    {Transport, HttpNotJson(200), HttpJson(500, <<>>)}
    \cup {HttpJson(200, b) : b \in PageSearchResults}

PageDetailResponses ==
    {Transport,
     HttpJson(200, [foodNutrients |->
                        <<NutrientEntry(1003, "Protein", "g", Num("float", 105))>>])}

\* the amounts the number input accepts: 1..1000, step 1
PageQuantities == {1, 100, 1000}

PageFoodNames == {<<>>, <<"t","e","a">>}

\* the event, its script runs, and what they passed on
FoodTabEvent(name, ss, event, shown) ==
    \E details \in PageDetailResponses :
        LET done == food_tab(heap.nutrition_api, ss, event, details, fpTieUp)
        IN  /\ op' = name
            /\ input' = shown
            /\ outcome' = [kind |-> "page", calls |-> done.calls]
            /\ netlog' = done.log
            /\ heap' = [heap EXCEPT !.session_state = done.ss]
            /\ UNCHANGED <<fpTieUp, env, threads>>

\* line 188: the amount is changed
ChangeQuantity ==
    /\ op = "none"
    /\ heap.nutrition_api # NoClient
    /\ \E quantity \in PageQuantities :
        /\ quantity # heap.session_state.quantity
        /\ FoodTabEvent("change_quantity",
                        [heap.session_state EXCEPT !.quantity = quantity],
                        NoEvent, [quantity |-> quantity])

\* lines 191-193: the checkbox, drawn while no food is selected
ToggleLiquid ==
    /\ op = "none"
    /\ heap.nutrition_api # NoClient
    /\ heap.session_state.selected_food = <<>>
    /\ FoodTabEvent("toggle_liquid", heap.session_state,
                    [NoEvent EXCEPT !.toggle = TRUE],
                    [is_liquid |-> ~heap.session_state.is_liquid])

\* lines 201-213: another unit of the list on the page
ChangeUnit ==
    /\ op = "none"
    /\ heap.nutrition_api # NoClient
    /\ LET ss == heap.session_state
           options == unit_options(ss.is_liquid)
       IN  \E i \in 1..Len(options) :
            /\ options[i] # unit_selected(ss)
            /\ FoodTabEvent("change_unit",
                            IF ss.is_liquid
                            THEN [ss EXCEPT !.unit_liquid = options[i]]
                            ELSE [ss EXCEPT !.unit_solid = options[i]],
                            NoEvent, [unit |-> options[i]])

\* lines 221-267: the Search button
ClickSearch ==
    /\ op = "none"
    /\ heap.nutrition_api # NoClient
    /\ \E food_name \in PageFoodNames, resp \in PageSearchResponses :
        FoodTabEvent("click_search", heap.session_state,
                     [NoEvent EXCEPT !.search = TRUE,
                                     !.clicked = [food_name |-> food_name,
                                                  resp |-> resp]],
                     [food_name |-> food_name, resp |-> resp])

\* lines 279-285: a food of the results is chosen in the radio
SelectFood ==
    /\ op = "none"
    /\ heap.nutrition_api # NoClient
    /\ LET ss == heap.session_state
           options == food_options(ss.search_results)
       IN  \E i \in 1..Len(options) :
            /\ options[i] # ss.food_selection
            /\ FoodTabEvent("select_food",
                            [ss EXCEPT !.food_selection = options[i]],
                            NoEvent, [food_selection |-> options[i]])

NextFoodTab ==
    \/ ChangeQuantity
    \/ ToggleLiquid
    \/ ChangeUnit
    \/ ClickSearch
    \/ SelectFood
    \/ Return

SpecFoodTab == Init /\ [][NextFoodTab]_vars

FoodTabCalls == IF op \in {"change_quantity", "toggle_liquid", "change_unit", "click_search", "select_food"} THEN outcome.calls ELSE <<>>

\* C25: whatever is done on the food lookup page, the unit passed to
\* convert_to_grams is ml or fl_oz when the is_liquid flag is set and g or oz
\* otherwise, the conversion succeeds, and the grams passed to
\* create_nutrient_tables are strictly positive and never divide by zero
C25_UnitsAndGramsFromPage ==
    \A i \in 1..Len(FoodTabCalls) :
        LET call == FoodTabCalls[i]
        IN  /\ call.unit \in (IF call.is_liquid THEN {"ml", "fl_oz"} ELSE {"g", "oz"})
            /\ call.grams.kind = "value"
            /\ call.grams.val > 0
            /\ call.tables.kind = "tables"

\* a liquid found by a search and then selected is looked up in fluid ounces
C25_Witness ==
    /\ op = "change_unit"
    /\ heap.session_state.selected_food = S_Apple
    /\ Len(outcome.calls) = 1
    /\ outcome.calls[1].is_liquid
    /\ outcome.calls[1].unit = "fl_oz"
    /\ outcome.calls[1].grams.val = 100 * 2957
====
